---- MODULE Spec2Model ----
(***************************************************************************)
(* Hybrid memory engine of project INDRA (src/memory.py): DatabaseClient   *)
(* (SQLite items table + FTS5 shadow index), ZvecMemoryStore (vector index *)
(* with sentinel health check, deferred sync, rebuild) and the MemoryGate  *)
(* lifecycle.  Every asyncio await point of the source is a step boundary. *)
(***************************************************************************)
EXTENDS Integers, Sequences, FiniteSets, TLC

\* ------------------------------------------------------------------ bounds
MaxClock == 3        \* timestamped writes (insert / touch / tombstone) per run
MaxCrashes == 2      \* process crashes per run
MaxCorruptions == 1  \* on-disk corruptions of the vector index per run
MaxFaults == 1       \* embedding / upsert / flush failures per run
MaxTopK == 2         \* largest top_k a retrieval request asks for
MaxTurns == 2        \* conversation turns handed to MemoryGate.process
MaxCancels == 1      \* cancellations of a running sync_pending_memories

Tasks == {"t1", "t2"}    \* asyncio tasks of the process
Writer == "t1"
Reader == "t2"
Syncer == "t2"

\* ------------------------------------------------- program constants
HEALTH_ID == 0               \* "__health_check__"; item ids are 1, 2, ...
batch_size == 256
DedupThreshold == 92         \* res.score > 0.92, in hundredths
DedupTopK == 3
RRF_K == 60
ProcessTopK == 10            \* get_relevant_context(conversation, top_k=10)

\* ------------------------------------------------- the embedding world
Texts == {"a", "a2", "b", "c"}
Queries == {"q"}

health_vector == <<"vec", "__health__">>

\* EmbeddingProvider: one vector per text, none at all when the model fails.
Embed(texts, ok) ==
    IF Len(texts) = 0 \/ ~ok THEN <<>>
    ELSE [n \in 1..Len(texts) |-> <<"vec", texts[n]>>]

\* Similarity score of two vectors in hundredths ("a2" paraphrases "a";
\* query "q" is closest to "a", then "a2", then "b").
SimTable ==
    { <<{"a", "a2"}, 95>>, <<{"a", "b"}, 30>>, <<{"a2", "b"}, 25>>,
      <<{"q", "a"}, 80>>,  <<{"q", "a2"}, 70>>, <<{"q", "b"}, 40>>,
      \* the embeddings of text "c" and of query "sq" lie close to the
      \* sentinel's vector
      <<{"c", "__health__"}, 95>>, <<{"sq", "__health__"}, 90>>,
      <<{"sq", "s1"}, 80>>, <<{"sq", "s2"}, 60>> }

Score(v, w) ==
    IF v = w THEN 100
    ELSE LET hit == {p \in SimTable : p[1] = {v[2], w[2]}}
         IN  IF hit = {} THEN 5 ELSE (CHOOSE p \in hit : TRUE)[2]

\* BM25 strength of an FTS5 MATCH of query against a text (0: no match).
\* "q" shares keywords with "b" (strongly) and "a2", none with "a".
Bm25(query, text) ==
    IF query = "q" /\ text = "b" THEN 2
    ELSE IF query = "q" /\ text = "a2" THEN 1
    ELSE 0

\* ExtractedMemory values handed to apply_updates.
NoMemory ==
    [preferences |-> <<>>, facts |-> <<>>, corrections |-> <<>>,
     obsolete_items |-> <<>>]

\* What the extraction agent can hand back for a turn: it raises, its output
\* does not validate, or it is an ExtractedMemory with or without important.
ExtractorOutcomes == {"raises", "malformed", "unimportant", "important"}

TurnMemories ==
    { [NoMemory EXCEPT !.facts = <<"a", "a2", "c">>],
      [NoMemory EXCEPT !.preferences = <<"c">>, !.corrections = <<"c">>],
      [NoMemory EXCEPT !.facts = <<"b">>, !.obsolete_items = <<"a", "c">>] }

\* Batch sizes sync_pending_memories is called with: one item at a time,
\* and the default.
BatchSizes == {1, batch_size}

Extractions ==
    { [NoMemory EXCEPT !.facts = <<"a">>],
      [NoMemory EXCEPT !.facts = <<"a2", "a2">>],
      [NoMemory EXCEPT !.preferences = <<"b">>, !.facts = <<"a2">>],
      [NoMemory EXCEPT !.corrections = <<"a">>, !.obsolete_items = <<"a">>],
      [NoMemory EXCEPT !.obsolete_items = <<"b">>] }

\* Sessions of the LaneManager (chat ids, thread ids) and the calls
\* submitted to it, numbered in the order of their submission.
MaxCalls == 3
Sessions == {"s1", "s2"}
Calls == 1..MaxCalls

\* Tools of the enabled skills in mcp_config.json and the ones among them
\* listed as write_actions.
Tools == {"search_web", "send_email"}
write_actions == {"send_email"}
MaxToolCalls == 2

\* Cron jobs and their schedules, in units of time: a recurring job runs
\* every Every units, a failed one is retried after Backoff units (30 s).
MaxTime == 3
MaxExecutions == 3
JobIds == {"j1"}
Every == 2
Backoff == 1
NoJob ==
    [present |-> FALSE, enabled |-> FALSE, kind |-> "none", at_ms |-> 0,
     next_run_at_ms |-> 0, last_run_at_ms |-> 0, last_status |-> "none",
     last_error |-> "none"]
NoTimer == [armed |-> FALSE, wake |-> 0]

NoWorker == [session_id |-> "", state |-> "none", call |-> 0]
NoFuture == [session_id |-> "", state |-> "none"]

\* ------------------------------------------------------------------ state
VARIABLES
    items,          \* memory_items rows, items[id] for id in 1..Len(items)
    fts,            \* memory_fts: the rowid of each row inserted into the index, in order
    clock,          \* wall clock, read by datetime.now() on each write
    zstate,         \* zvec_index directory: absent / ok / unopenable / badprobe
    zdocs,          \* zvec_index documents: doc id -> embedding
    collection,     \* ZvecMemoryStore.collection is not None
    needs_rebuild,  \* ZvecMemoryStore._needs_rebuild
    boot,           \* position of the process in MemoryGate.initialize
    rb,             \* locals of the running rebuild_from_sqlite
    pc,             \* position of each task
    loc,            \* locals of each task
    ret,            \* what each task's last call returned
    lastIngested,   \* text whose ingestion by apply_updates completed last
    crashes, corruptions, faults,
    history,        \* thread_history rows, in insertion order (id order): the
                    \* role of each row where only process writes them, the
                    \* whole row where add_history is called directly
    turn,           \* position of each task inside MemoryGate.process
    cancels,        \* task cancellations so far
    held,           \* asyncio locks each task holds
    prog,           \* instructions left in each task's current call
    running,        \* the store / index operation each task is executing
    lanes,          \* LaneManager.lanes: the queue of each session
    workers,        \* LaneManager.workers: the worker task registered per session
    worker_tasks,   \* the asyncio tasks created for LaneManager._process
    futures,        \* the Future of each submitted call, with its session
    memory_tasks,   \* the asyncio tasks created for _run_memorygate
    graph_node,     \* node of the agent graph the thread's run is at
    pending_action, \* AgentState.pending_action: the intercepted tool, or none
    tool_failure_count, \* AgentState.tool_failure_count
    decision,       \* value the graph was last resumed with
    real_calls,     \* how often the real function of each tool has run
    cron_running,   \* CronManager.running
    jobs,           \* CronManager.jobs
    timer,          \* CronManager._timer_task and the time it wakes at
    executions,     \* the asyncio tasks created for CronManager._execute_job
    now_ms          \* time.time() in units of the cron schedules

vars == <<items, fts, clock, zstate, zdocs, collection, needs_rebuild, boot,
          rb, pc, loc, ret, lastIngested, crashes, corruptions, faults,
          history, turn, cancels, held, prog, running, lanes, workers,
          worker_tasks, futures, memory_tasks, graph_node, pending_action,
          tool_failure_count, decision, real_calls, cron_running, jobs, timer,
          executions, now_ms>>

engineVars == <<items, fts, clock, zstate, zdocs, collection, needs_rebuild,
                boot, rb, pc, loc, ret, lastIngested, crashes, corruptions,
                faults>>
gateVars == <<history, turn>>
lockVars == <<held, prog, running>>
laneVars == <<lanes, workers, worker_tasks, futures, memory_tasks>>
hitlVars == <<graph_node, pending_action, tool_failure_count, decision,
              real_calls>>
cronVars == <<cron_running, jobs, timer, executions, now_ms>>
sideVars == <<hitlVars, cronVars>>
auxVars  == <<gateVars, cancels, lockVars, laneVars, sideVars>>

storeVars == <<items, fts, clock>>
indexVars == <<zstate, zdocs>>
procVars  == <<collection, needs_rebuild, boot, rb>>
envVars   == <<crashes, corruptions, faults>>

ItemIds == 1..Len(items)

IdleLoc ==
    [queue |-> <<>>, obsolete |-> <<>>, target |-> 0, ids |-> <<>>,
     query |-> "", top_k |-> 0, zvec_ranked |-> <<>>, fts_ranked |-> <<>>,
     merged_ids |-> <<>>]

NoRet ==
    [op |-> "none", status |-> "none", rows |-> <<>>, query |-> "",
     top_k |-> 0, zvec_ranked |-> <<>>, fts_ranked |-> <<>>, ids |-> <<>>]

NoRebuild ==
    [ids |-> <<>>, docs |-> <<>>, embedded |-> FALSE, upserted |-> FALSE,
     done |-> FALSE]

NoTurn ==
    [stage |-> "none", extraction |-> "none", memory |-> <<>>,
     before |-> <<>>, logged |-> 0]

Init ==
    /\ items = <<>>
    /\ fts = <<>>
    /\ clock = 0
    /\ zstate = "absent"
    /\ zdocs = <<>>
    /\ collection = FALSE
    /\ needs_rebuild = FALSE
    /\ boot = "down"
    /\ rb = NoRebuild
    /\ pc = [t \in Tasks |-> "idle"]
    /\ loc = [t \in Tasks |-> IdleLoc]
    /\ ret = [t \in Tasks |-> NoRet]
    /\ lastIngested = [text |-> "none", repeat |-> FALSE, created |-> FALSE, item |-> 0]
    /\ crashes = 0
    /\ corruptions = 0
    /\ faults = 0
    /\ history = <<>>
    /\ turn = [t \in Tasks |-> NoTurn]
    /\ cancels = 0
    /\ held = [t \in Tasks |-> {}]
    /\ prog = [t \in Tasks |-> <<>>]
    /\ running = [t \in Tasks |-> "none"]
    /\ lanes = [s \in Sessions |-> <<>>]
    /\ workers = [s \in Sessions |-> 0]
    /\ worker_tasks = [w \in Calls |-> NoWorker]
    /\ futures = [c \in Calls |-> NoFuture]
    /\ memory_tasks = [c \in Calls |-> "none"]
    /\ graph_node = "end"
    /\ pending_action = "none"
    /\ tool_failure_count = 0
    /\ decision = "none"
    /\ real_calls = [tool \in Tools |-> 0]
    /\ cron_running = FALSE
    /\ jobs = [j \in JobIds |-> NoJob]
    /\ timer = NoTimer
    /\ executions = <<>>
    /\ now_ms = 0

\* ------------------------------------------------------ sequence helpers
Take(s, n) == SubSeq(s, 1, IF Len(s) < n THEN Len(s) ELSE n)

Range(s) == {s[n] : n \in 1..Len(s)}

RemoveAt(s, p) == SubSeq(s, 1, p - 1) \o SubSeq(s, p + 1, Len(s))

RECURSIVE SetToSeq(_)
SetToSeq(S) ==
    IF S = {} THEN <<>>
    ELSE LET m == CHOOSE x \in S : \A y \in S : x <= y
         IN  <<m>> \o SetToSeq(S \ {m})

Orderings(S) ==
    {s \in [1..Cardinality(S) -> S] : \A x \in S : \E n \in DOMAIN s : s[n] = x}

\* ------------------------------------------------ DatabaseClient (SQLite)
NewItem(kind, text, now) ==
    [text |-> text, kind |-> kind, status |-> "active", indexed |-> FALSE,
     created_ts |-> now, updated_ts |-> now]

\* The pre-check as it would be if it only saw rows already synced.
ItemExistsByTextSyncedOnly(text) ==
    {i \in ItemIds : /\ items[i].text = text
                     /\ items[i].status = "active"
                     /\ items[i].indexed}

\* SELECT id FROM memory_items WHERE text = ? AND status = 'active';
\* fetchone() takes one of the rows.
ItemExistsByText(text) ==
    {i \in ItemIds : items[i].text = text /\ items[i].status = "active"}

\* The lookup as it would be without the status filter.
GetItemsByIdsAnyStatus(item_ids) ==
    {i \in Range(item_ids) : i \in ItemIds}

\* SELECT ... WHERE id IN (...) AND status = 'active'
GetActiveItemsByIds(item_ids) ==
    {i \in Range(item_ids) : i \in ItemIds /\ items[i].status = "active"}

\* The removal as it would be if it deleted the matching rows.
DeleteByContent(contents, now) ==
    SelectSeq(items, LAMBDA row :
        ~(row.status = "active" /\ row.text \in Range(contents)))

\* The update as it would be without the status = 'active' condition.
TombstoneByContentAnyStatus(contents, now) ==
    [i \in ItemIds |->
        IF items[i].text \in Range(contents)
        THEN [items[i] EXCEPT !.status = "tombstoned", !.updated_ts = now]
        ELSE items[i]]

\* UPDATE ... SET status = 'tombstoned', updated_ts = now
\* WHERE text = content AND status = 'active', for each content
TombstoneByContent(contents, now) ==
    [i \in ItemIds |->
        IF items[i].status = "active" /\ items[i].text \in Range(contents)
        THEN [items[i] EXCEPT !.status = "tombstoned", !.updated_ts = now]
        ELSE items[i]]

\* The update as it would be if it also set status = 'active'.
TouchItemReactivating(item_id, now) ==
    [i \in ItemIds |->
        IF i = item_id
        THEN [items[i] EXCEPT !.updated_ts = now, !.status = "active"]
        ELSE items[i]]

\* UPDATE memory_items SET updated_ts = now WHERE id = item_id
TouchItem(item_id, now) ==
    [i \in ItemIds |->
        IF i = item_id THEN [items[i] EXCEPT !.updated_ts = now] ELSE items[i]]

\* The insert as it would be with INSERT OR REPLACE: a row that carries the
\* id is overwritten by a fresh Active row.
InsertOrReplaceMemoryItem(item_id, kind, text, now) ==
    [rows |-> IF item_id \in ItemIds
              THEN [items EXCEPT ![item_id] = NewItem(kind, text, now)]
              ELSE Append(items, NewItem(kind, text, now)),
     index |-> Append(fts, item_id)]

\* INSERT OR IGNORE INTO memory_items ...; then INSERT INTO memory_fts
\* SELECT ... WHERE id = ?: the FTS row is added from whatever row carries
\* the id, whether or not the first statement inserted it (FTS5 counts the
\* row once more in the statistics BM25 ranks with).
InsertMemoryItem(item_id, kind, text, now) ==
    [rows |-> IF item_id \in ItemIds THEN items
              ELSE Append(items, NewItem(kind, text, now)),
     index |-> Append(fts, item_id)]

\* The fetch as it would be without the indexed = 0 filter.
FetchActiveItems(limit) ==
    Take(SetToSeq({i \in ItemIds : items[i].status = "active"}), limit)

\* SELECT id, text FROM memory_items WHERE indexed = 0 AND status = 'active'
\* LIMIT batch_size
FetchPendingItems(limit) ==
    Take(SetToSeq({i \in ItemIds :
                      ~items[i].indexed /\ items[i].status = "active"}), limit)

\* UPDATE memory_items SET indexed = 1 WHERE id IN (...)
MarkItemsIndexed(item_ids) ==
    [i \in ItemIds |->
        IF i \in Range(item_ids) THEN [items[i] EXCEPT !.indexed = TRUE]
        ELSE items[i]]

\* rebuild_from_sqlite._fetch_all:
\* SELECT id, text FROM memory_items WHERE status = 'active'
FetchAllActive == SetToSeq({i \in ItemIds : items[i].status = "active"})

\* memory_fts JOIN memory_items ... WHERE memory_fts MATCH query
\* AND mi.status = 'active' ORDER BY rank LIMIT limit.
\* One result row per matching rowid (FTS5 merges the entries of a rowid
\* that was inserted more than once), best BM25 first.
RECURSIVE FtsOrder(_, _)
FtsOrder(query, entries) ==
    IF entries = {} THEN <<>>
    ELSE LET best == CHOOSE p \in entries : \A r \in entries :
                        \/ Bm25(query, items[fts[p]].text)
                              > Bm25(query, items[fts[r]].text)
                        \/ /\ Bm25(query, items[fts[p]].text)
                                 = Bm25(query, items[fts[r]].text)
                           /\ p <= r
         IN  <<fts[best]>> \o FtsOrder(query, entries \ {best})

SearchFts(query, limit) ==
    Take(FtsOrder(query,
            {p \in 1..Len(fts) :
                /\ \A r \in 1..(p - 1) : fts[r] # fts[p]
                /\ fts[p] \in ItemIds
                /\ Bm25(query, items[fts[p]].text) > 0
                /\ items[fts[p]].status = "active"}), limit)

\* ------------------------------------------------ zvec collection
\* coll.upsert(docs): docs is a sequence of <<id, vector>>
Upsert(docs, new) ==
    [i \in DOMAIN docs \cup {d[1] : d \in Range(new)} |->
        IF \E d \in Range(new) : d[1] = i
        THEN (CHOOSE d \in Range(new) : d[1] = i)[2]
        ELSE docs[i]]

\* zip(ids, vectors)
Zip(ids, vectors) ==
    [n \in 1..(IF Len(ids) < Len(vectors) THEN Len(ids) ELSE Len(vectors)) |->
        <<ids[n], vectors[n]>>]

\* coll.query(vector, topk): ids by descending score
RECURSIVE QueryOrder(_, _, _)
QueryOrder(docs, ids, vector) ==
    IF ids = {} THEN <<>>
    ELSE LET best == CHOOSE i \in ids : \A j \in ids :
                        \/ Score(docs[i], vector) > Score(docs[j], vector)
                        \/ /\ Score(docs[i], vector) = Score(docs[j], vector)
                           /\ i <= j
         IN  <<best>> \o QueryOrder(docs, ids \ {best}, vector)

CollectionQuery(docs, vector, topk) ==
    Take(QueryOrder(docs, DOMAIN docs, vector), topk)

EnsureHealthDoc(docs) ==
    IF HEALTH_ID \in DOMAIN docs THEN docs
    ELSE Upsert(docs, <<(<<HEALTH_ID, health_vector>>)>>)

\* A probe that rejects every index, the intact one included.
ProbeAlwaysFails(state, docs) ==
    FALSE

\* fetch(HEALTH_ID) finds the sentinel and the top-1 query with the
\* sentinel's vector returns it; a damaged index answers neither reliably.
ProbeIntegrity(state, docs) ==
    /\ state = "ok"
    /\ HEALTH_ID \in DOMAIN docs
    /\ LET res == CollectionQuery(docs, health_vector, 1)
       IN  Len(res) > 0 /\ res[1] = HEALTH_ID

\* shutil.rmtree + zvec.create_and_open
WipeAndRecreate == <<>>

\* ------------------------------------------------ Reciprocal Rank Fusion
\* Scores are exact fractions <<numerator, denominator>>.
\* The accumulation as it would be if an id kept the score of the first
\* list it was seen in.
AddReciprocalFirstOnly(f, x) == IF f[1] = 0 THEN <<1, x>> ELSE f

AddReciprocal(f, x) == <<f[1] * x + f[2], f[2] * x>>

ScoreGT(f, g) == f[1] * g[2] > g[1] * f[2]

\* for rank, item_id in enumerate(ranked):
\*     rrf_scores[item_id] = rrf_scores.get(item_id, 0.0) + 1.0 / (60 + rank + 1)
RECURSIVE RrfAccumulate(_, _, _)
RrfAccumulate(scores, ranked, n) ==
    IF n > Len(ranked) THEN scores
    ELSE LET id  == ranked[n]
             old == IF id \in DOMAIN scores THEN scores[id] ELSE <<0, 1>>
             new == AddReciprocal(old, RRF_K + (n - 1) + 1)
         IN  RrfAccumulate(
                 [i \in DOMAIN scores \cup {id} |->
                     IF i = id THEN new ELSE scores[i]],
                 ranked, n + 1)

RrfScores(zvec_ranked, fts_ranked) ==
    RrfAccumulate(RrfAccumulate(<<>>, zvec_ranked, 1), fts_ranked, 1)

\* rrf_scores.keys(): ids in the order in which they were first added
RECURSIVE RrfKeys(_)
RrfKeys(ranked) ==
    IF ranked = <<>> THEN <<>>
    ELSE LET front == RrfKeys(SubSeq(ranked, 1, Len(ranked) - 1))
             id    == ranked[Len(ranked)]
         IN  IF id \in Range(front) THEN front ELSE Append(front, id)

\* sorted(keys, key=score, reverse=True): stable, highest score first
RECURSIVE SortedByScore(_, _)
SortedByScore(keys, scores) ==
    IF keys = <<>> THEN <<>>
    ELSE LET p == CHOOSE p \in 1..Len(keys) :
                    /\ \A r \in 1..Len(keys) :
                          ~ScoreGT(scores[keys[r]], scores[keys[p]])
                    /\ \A r \in 1..(p - 1) :
                          ScoreGT(scores[keys[p]], scores[keys[r]])
         IN  <<keys[p]>> \o SortedByScore(RemoveAt(keys, p), scores)

Reverse(s) == [n \in 1..Len(s) |-> s[Len(s) + 1 - n]]

\* The merge as it would be with the sort left ascending.
MergedIdsAscending(zvec_ranked, fts_ranked, top_k) ==
    Take(Reverse(SortedByScore(RrfKeys(zvec_ranked \o fts_ranked),
                               RrfScores(zvec_ranked, fts_ranked))), top_k)

MergedIds(zvec_ranked, fts_ranked, top_k) ==
    Take(SortedByScore(RrfKeys(zvec_ranked \o fts_ranked),
                       RrfScores(zvec_ranked, fts_ranked)), top_k)

\* The list as it would be with the sentinel left in.
WithHealth(ids) == ids

\* [res.id for res in results if res.id != HEALTH_ID]
RECURSIVE WithoutHealth(_)
WithoutHealth(ids) ==
    IF ids = <<>> THEN <<>>
    ELSE IF Head(ids) = HEALTH_ID THEN WithoutHealth(Tail(ids))
    ELSE <<Head(ids)>> \o WithoutHealth(Tail(ids))

\* ----------------------------------------------- lifecycle (MemoryGate)
\* ZvecMemoryStore.initialize, memory index: open, ensure the sentinel,
\* probe; on any failure wipe, recreate, rewrite the sentinel, raise the flag.
Initialize ==
    /\ boot = "down"
    /\ LET healthy == /\ zstate = "ok"
                      /\ ProbeIntegrity(zstate, EnsureHealthDoc(zdocs))
       IN  IF healthy
           THEN /\ zdocs' = EnsureHealthDoc(zdocs)
                /\ UNCHANGED needs_rebuild
           ELSE /\ zdocs' = EnsureHealthDoc(WipeAndRecreate)
                /\ needs_rebuild' = TRUE
    /\ zstate' = "ok"
    /\ collection' = TRUE
    /\ boot' = "opened"
    /\ UNCHANGED <<auxVars, storeVars, rb, pc, loc, ret, lastIngested, envVars>>

\* rebuild_from_sqlite up to the embedding: read every Active row, embed.
RebuildFetch(ok) ==
    /\ boot = "opened"
    /\ needs_rebuild
    /\ ok \/ faults < MaxFaults
    /\ LET rows == FetchAllActive
           texts == [n \in 1..Len(rows) |-> items[rows[n]].text]
       IN  IF rows = <<>>
           THEN /\ ok
                /\ needs_rebuild' = FALSE
                /\ rb' = [NoRebuild EXCEPT !.done = TRUE]
                /\ UNCHANGED <<boot, faults>>
           ELSE /\ rb' = [NoRebuild EXCEPT !.ids = rows,
                                           !.docs = Zip(rows, Embed(texts, ok)),
                                           !.embedded = ok]
                /\ boot' = "rebuild_upsert"
                /\ faults' = IF ok THEN faults ELSE faults + 1
                /\ UNCHANGED needs_rebuild
    /\ UNCHANGED <<auxVars, storeVars, indexVars, collection, pc, loc, ret,
                   lastIngested, crashes, corruptions>>

\* rebuild_from_sqlite: upsert + flush under the write lock; an exception
\* is logged and swallowed.
RebuildUpsert(ok) ==
    /\ boot = "rebuild_upsert"
    /\ ok \/ faults < MaxFaults
    /\ zdocs' = IF ok THEN Upsert(zdocs, rb.docs) ELSE zdocs
    /\ rb' = [rb EXCEPT !.upserted = ok]
    /\ faults' = IF ok THEN faults ELSE faults + 1
    /\ boot' = "rebuild_mark"
    /\ UNCHANGED <<auxVars, storeVars, zstate, collection, needs_rebuild, pc, loc, ret,
                   lastIngested, crashes, corruptions>>

\* rebuild_from_sqlite: mark_items_indexed(item_ids); _needs_rebuild = False
RebuildMark ==
    /\ boot = "rebuild_mark"
    /\ items' = MarkItemsIndexed(rb.ids)
    /\ needs_rebuild' = FALSE
    /\ rb' = [rb EXCEPT !.done = TRUE]
    /\ boot' = "opened"
    /\ UNCHANGED <<auxVars, fts, clock, indexVars, collection, pc, loc, ret,
                   lastIngested, envVars>>

\* MemoryGate.initialize returns (after initialize_skills).
InitializeDone ==
    /\ boot = "opened"
    /\ ~needs_rebuild
    /\ boot' = "up"
    /\ rb' = NoRebuild
    /\ UNCHANGED <<auxVars, storeVars, indexVars, collection, needs_rebuild, pc, loc,
                   ret, lastIngested, envVars>>

\* The process dies (kill, power loss) or exits: every task and all
\* in-memory state of the store is gone, the files stay.
Crash ==
    /\ boot # "down"
    /\ crashes < MaxCrashes
    /\ crashes' = crashes + 1
    /\ boot' = "down"
    /\ collection' = FALSE
    /\ needs_rebuild' = FALSE
    /\ rb' = NoRebuild
    /\ pc' = [t \in Tasks |-> "idle"]
    /\ loc' = [t \in Tasks |-> IdleLoc]
    /\ ret' = [t \in Tasks |-> NoRet]
    /\ lastIngested' = [text |-> "none", repeat |-> FALSE, created |-> FALSE, item |-> 0]
    /\ turn' = [t \in Tasks |-> NoTurn]
    /\ held' = [t \in Tasks |-> {}]
    /\ prog' = [t \in Tasks |-> <<>>]
    /\ running' = [t \in Tasks |-> "none"]
    /\ UNCHANGED <<storeVars, indexVars, corruptions, faults, history, cancels, laneVars, sideVars>>

\* The zvec_index directory is damaged while the process is down: it can
\* no longer be opened, or it opens and the sentinel probe fails.
Corrupt(damage) ==
    /\ boot = "down"
    /\ zstate = "ok"
    /\ corruptions < MaxCorruptions
    /\ corruptions' = corruptions + 1
    /\ zstate' = damage
    /\ UNCHANGED <<auxVars, storeVars, zdocs, procVars, pc, loc, ret, lastIngested,
                   crashes, faults>>

\* ------------------------------------------------ apply_updates
\* kind_map: preferences as 'pref', facts as 'fact', corrections as 'rule'
KindMap(memory) ==
    [n \in 1..Len(memory.preferences) |-> <<memory.preferences[n], "pref">>]
    \o [n \in 1..Len(memory.facts) |-> <<memory.facts[n], "fact">>]
    \o [n \in 1..Len(memory.corrections) |-> <<memory.corrections[n], "rule">>]

NoIngestion == [text |-> "none", repeat |-> FALSE, created |-> FALSE, item |-> 0]

ApplyReturn == [NoRet EXCEPT !.op = "apply_updates", !.status = "ok"]

\* The loop of apply_updates moves on to the next text, or returns.
NextText(t) ==
    LET rest == Tail(loc[t].queue)
    IN  /\ pc' = [pc EXCEPT ![t] = IF rest = <<>> THEN "idle" ELSE "check"]
        /\ loc' = [loc EXCEPT ![t] = [IdleLoc EXCEPT !.queue = rest]]
        /\ ret' = [ret EXCEPT ![t] = IF rest = <<>> THEN ApplyReturn ELSE @]

Ingested(t, created, item) ==
    [text |-> Head(loc[t].queue)[1],
     repeat |-> lastIngested.text = Head(loc[t].queue)[1],
     created |-> created, item |-> item]

\* A task calls apply_updates(memory).
StartApplyUpdates(t, memory) ==
    /\ boot = "up"
    /\ pc[t] = "idle"
    /\ clock < MaxClock
    /\ loc' = [loc EXCEPT ![t] = [IdleLoc EXCEPT
                                     !.queue = KindMap(memory),
                                     !.obsolete = memory.obsolete_items]]
    /\ pc' = [pc EXCEPT ![t] =
                 IF memory.obsolete_items # <<>> THEN "tombstone"
                 ELSE IF KindMap(memory) # <<>> THEN "check" ELSE "idle"]
    /\ ret' = [ret EXCEPT ![t] =
                 IF memory.obsolete_items = <<>> /\ KindMap(memory) = <<>>
                 THEN ApplyReturn ELSE NoRet]
    /\ UNCHANGED <<auxVars, storeVars, indexVars, procVars, lastIngested, envVars>>

\* 1. await self.db.tombstone_by_content(memory.obsolete_items)
ApplyTombstone(t) ==
    /\ boot = "up"
    /\ pc[t] = "tombstone"
    /\ clock < MaxClock
    /\ items' = TombstoneByContent(loc[t].obsolete, clock + 1)
    /\ clock' = clock + 1
    /\ pc' = [pc EXCEPT ![t] = IF loc[t].queue = <<>> THEN "idle" ELSE "check"]
    /\ ret' = [ret EXCEPT ![t] = IF loc[t].queue = <<>> THEN ApplyReturn ELSE @]
    /\ loc' = [loc EXCEPT ![t] = [IdleLoc EXCEPT !.queue = loc[t].queue]]
    /\ lastIngested' = NoIngestion
    /\ UNCHANGED <<auxVars, fts, indexVars, procVars, envVars>>

\* The pre-check as it would be if a hit did not end the handling of the
\* text.
ExactCheckIgnored(t) ==
    /\ boot = "up"
    /\ pc[t] = "check"
    /\ pc' = [pc EXCEPT ![t] = IF collection THEN "dedup" ELSE "insert"]
    /\ UNCHANGED loc
    /\ UNCHANGED <<auxVars, storeVars, indexVars, procVars, ret, lastIngested, envVars>>

\* existing_id = await self.db.item_exists_by_text(text)
ExactCheck(t) ==
    /\ boot = "up"
    /\ pc[t] = "check"
    /\ LET found == ItemExistsByText(Head(loc[t].queue)[1])
       IN  IF found # {}
           THEN \E existing_id \in found :
                   /\ loc' = [loc EXCEPT ![t].target = existing_id]
                   /\ pc' = [pc EXCEPT ![t] = "touch"]
           ELSE /\ pc' = [pc EXCEPT ![t] =
                            IF collection THEN "dedup" ELSE "insert"]
                /\ UNCHANGED loc
    /\ UNCHANGED <<auxVars, storeVars, indexVars, procVars, ret, lastIngested, envVars>>

\* Semantic similarity check: embed the text, query the 3 nearest records,
\* the first one that is not the sentinel and scores above 0.92 is the
\* duplicate.  Any exception (an empty embedding result included) is logged
\* and the text counts as new.
SemanticDedup(t, ok) ==
    /\ boot = "up"
    /\ pc[t] = "dedup"
    /\ ok \/ faults < MaxFaults
    /\ faults' = IF ok THEN faults ELSE faults + 1
    /\ LET vectors == Embed(<<Head(loc[t].queue)[1]>>, ok)
           results == IF vectors = <<>> THEN <<>>
                      ELSE CollectionQuery(zdocs, vectors[1], DedupTopK)
           hits    == {n \in 1..Len(results) :
                          /\ results[n] # HEALTH_ID
                          /\ Score(zdocs[results[n]], vectors[1])
                                > DedupThreshold}
       IN  IF hits # {}
           THEN /\ loc' = [loc EXCEPT ![t].target =
                             results[CHOOSE n \in hits : \A m \in hits : n <= m]]
                /\ pc' = [pc EXCEPT ![t] = "touch"]
           ELSE /\ pc' = [pc EXCEPT ![t] = "insert"]
                /\ UNCHANGED loc
    /\ UNCHANGED <<auxVars, storeVars, indexVars, procVars, ret, lastIngested,
                   crashes, corruptions>>

\* await self.db.touch_item(id); continue
TouchExisting(t) ==
    /\ boot = "up"
    /\ pc[t] = "touch"
    /\ clock < MaxClock
    /\ items' = TouchItem(loc[t].target, clock + 1)
    /\ clock' = clock + 1
    /\ lastIngested' = Ingested(t, FALSE, loc[t].target)
    /\ NextText(t)
    /\ UNCHANGED <<auxVars, fts, indexVars, procVars, envVars>>

\* The insert as it would be if it also wrote the vector record at once.
InsertNewEager(t) ==
    /\ boot = "up"
    /\ pc[t] = "insert"
    /\ clock < MaxClock
    /\ LET item_id == Len(items) + 1
           written == InsertMemoryItem(item_id, Head(loc[t].queue)[2],
                                       Head(loc[t].queue)[1], clock + 1)
       IN  /\ items' = written.rows
           /\ fts' = written.index
           /\ lastIngested' = Ingested(t, TRUE, item_id)
           /\ zdocs' = Upsert(zdocs,
                   Zip(<<item_id>>, Embed(<<Head(loc[t].queue)[1]>>, TRUE)))
    /\ clock' = clock + 1
    /\ NextText(t)
    /\ UNCHANGED <<auxVars, zstate, procVars, envVars>>

\* item_id = f"mem_{uuid4}"; await self.db.insert_memory_item(...)
InsertNew(t) ==
    /\ boot = "up"
    /\ pc[t] = "insert"
    /\ clock < MaxClock
    /\ LET item_id == Len(items) + 1
           written == InsertMemoryItem(item_id, Head(loc[t].queue)[2],
                                       Head(loc[t].queue)[1], clock + 1)
       IN  /\ items' = written.rows
           /\ fts' = written.index
           /\ lastIngested' = Ingested(t, TRUE, item_id)
    /\ clock' = clock + 1
    /\ NextText(t)
    /\ UNCHANGED <<auxVars, indexVars, procVars, envVars>>

\* ------------------------------------------------ sync_pending_memories
DocIds(docs) == [n \in 1..Len(docs) |-> docs[n][1]]

SyncReturn(status, ids) ==
    [NoRet EXCEPT !.op = "sync_pending", !.status = status, !.ids = ids]

\* sync_pending_memories(batch_size=limit): fetch_pending_items(limit), then
\* _embed(texts) outside the lock; returns when nothing is pending or no
\* vectors came back.
SyncFetchBatch(t, limit, ok) ==
    /\ boot = "up"
    /\ pc[t] = "idle"
    /\ ok \/ faults < MaxFaults
    /\ LET pending == IF collection THEN FetchPendingItems(limit) ELSE <<>>
           texts   == [n \in 1..Len(pending) |-> items[pending[n]].text]
           vectors == Embed(texts, ok)
       IN  IF pending = <<>>
           THEN /\ ok
                /\ ret' = [ret EXCEPT ![t] = SyncReturn("noop", <<>>)]
                /\ UNCHANGED <<pc, loc, faults>>
           ELSE IF vectors = <<>>
           THEN /\ ret' = [ret EXCEPT ![t] = SyncReturn("failed", pending)]
                /\ faults' = faults + 1
                /\ UNCHANGED <<pc, loc>>
           ELSE /\ loc' = [loc EXCEPT ![t] =
                             [IdleLoc EXCEPT !.ids = Zip(pending, vectors)]]
                /\ pc' = [pc EXCEPT ![t] = "upsert"]
                /\ ret' = [ret EXCEPT ![t] = NoRet]
                /\ UNCHANGED faults
    /\ UNCHANGED <<auxVars, storeVars, indexVars, procVars, lastIngested,
                   crashes, corruptions>>

\* The call as the program makes it, with the default batch_size.
SyncFetch(t, ok) == SyncFetchBatch(t, batch_size, ok)

\* The task running sync_pending_memories is cancelled.  While it waits for
\* the write lock nothing has been written; while it awaits
\* mark_items_indexed the UPDATE is already in a worker thread, which runs
\* to its end or is dropped with the executor.
CancelSync(t, marked) ==
    /\ boot = "up"
    /\ pc[t] \in {"upsert", "mark"}
    /\ cancels < MaxCancels
    /\ cancels' = cancels + 1
    /\ items' = IF pc[t] = "mark" /\ marked
                THEN MarkItemsIndexed(DocIds(loc[t].ids)) ELSE items
    /\ pc' = [pc EXCEPT ![t] = "idle"]
    /\ loc' = [loc EXCEPT ![t] = IdleLoc]
    /\ ret' = [ret EXCEPT ![t] = SyncReturn("cancelled", DocIds(loc[t].ids))]
    /\ UNCHANGED <<fts, clock, indexVars, procVars, lastIngested, envVars,
                   gateVars, lockVars, laneVars, sideVars>>

\* async with self._zvec_write_lock: _ensure_health_doc; upsert; flush.
\* upsert or flush may raise: the call logs and returns without marking.
SyncUpsert(t, outcome) ==
    /\ boot = "up"
    /\ pc[t] = "upsert"
    /\ outcome = "ok" \/ faults < MaxFaults
    /\ faults' = IF outcome = "ok" THEN faults ELSE faults + 1
    /\ zdocs' = IF outcome = "upsert_raises" THEN EnsureHealthDoc(zdocs)
                ELSE Upsert(EnsureHealthDoc(zdocs), loc[t].ids)
    /\ IF outcome = "ok"
       THEN /\ pc' = [pc EXCEPT ![t] = "mark"]
            /\ UNCHANGED <<loc, ret>>
       ELSE /\ pc' = [pc EXCEPT ![t] = "idle"]
            /\ loc' = [loc EXCEPT ![t] = IdleLoc]
            /\ ret' = [ret EXCEPT ![t] =
                         SyncReturn("failed", DocIds(loc[t].ids))]
    /\ UNCHANGED <<auxVars, storeVars, zstate, procVars, lastIngested,
                   crashes, corruptions>>

\* The last step of sync_pending_memories as it would be if it returned
\* without marking.
SyncMarkNothing(t) ==
    /\ boot = "up"
    /\ pc[t] = "mark"
    /\ items' = items
    /\ pc' = [pc EXCEPT ![t] = "idle"]
    /\ loc' = [loc EXCEPT ![t] = IdleLoc]
    /\ ret' = [ret EXCEPT ![t] = SyncReturn("ok", DocIds(loc[t].ids))]
    /\ UNCHANGED <<auxVars, fts, clock, indexVars, procVars, lastIngested, envVars>>

\* await self.db.mark_items_indexed(ids)
SyncMark(t) ==
    /\ boot = "up"
    /\ pc[t] = "mark"
    /\ items' = MarkItemsIndexed(DocIds(loc[t].ids))
    /\ pc' = [pc EXCEPT ![t] = "idle"]
    /\ loc' = [loc EXCEPT ![t] = IdleLoc]
    /\ ret' = [ret EXCEPT ![t] = SyncReturn("ok", DocIds(loc[t].ids))]
    /\ UNCHANGED <<auxVars, fts, clock, indexVars, procVars, lastIngested, envVars>>

\* ------------------------------------------------ get_relevant_context
ContextReturn(l, status, rows) ==
    [NoRet EXCEPT !.op = "get_relevant_context", !.status = status,
                  !.rows = rows, !.query = l.query, !.top_k = l.top_k,
                  !.zvec_ranked = l.zvec_ranked, !.fts_ranked = l.fts_ranked]

\* "- [kind] text" for each row
Render(rows) == [n \in 1..Len(rows) |-> <<rows[n].kind, rows[n].text>>]

\* vector = (await self._embed([query]))[0]; then the vector search for
\* top_k * 2 records, the sentinel filtered out.
RetrieveVector(t, query, top_k, ok) ==
    /\ boot = "up"
    /\ pc[t] = "idle"
    /\ ok \/ faults < MaxFaults
    /\ LET vectors == Embed(<<query>>, ok)
           l == [IdleLoc EXCEPT !.query = query, !.top_k = top_k]
       IN  IF ~collection
           THEN /\ ok
                /\ ret' = [ret EXCEPT ![t] = ContextReturn(l, "ok", <<>>)]
                /\ UNCHANGED <<pc, loc, faults>>
           ELSE IF vectors = <<>>
           THEN \* [][0]: IndexError leaves get_relevant_context
                /\ ret' = [ret EXCEPT ![t] = ContextReturn(l, "raised", <<>>)]
                /\ faults' = faults + 1
                /\ UNCHANGED <<pc, loc>>
           ELSE /\ loc' = [loc EXCEPT ![t] =
                             [l EXCEPT !.zvec_ranked = WithoutHealth(
                                 CollectionQuery(zdocs, vectors[1], top_k * 2))]]
                /\ pc' = [pc EXCEPT ![t] = "fts"]
                /\ ret' = [ret EXCEPT ![t] = NoRet]
                /\ UNCHANGED faults
    /\ UNCHANGED <<auxVars, storeVars, indexVars, procVars, lastIngested,
                   crashes, corruptions>>

\* fts_results = await self.db.search_fts(query, limit=top_k * 2); RRF merge
RetrieveFts(t) ==
    /\ boot = "up"
    /\ pc[t] = "fts"
    /\ LET fts_ranked == SearchFts(loc[t].query, loc[t].top_k * 2)
           merged_ids == MergedIds(loc[t].zvec_ranked, fts_ranked, loc[t].top_k)
           l == [loc[t] EXCEPT !.fts_ranked = fts_ranked,
                               !.merged_ids = merged_ids]
       IN  IF merged_ids = <<>>
           THEN /\ ret' = [ret EXCEPT ![t] = ContextReturn(l, "ok", <<>>)]
                /\ pc' = [pc EXCEPT ![t] = "idle"]
                /\ loc' = [loc EXCEPT ![t] = IdleLoc]
           ELSE /\ loc' = [loc EXCEPT ![t] = l]
                /\ pc' = [pc EXCEPT ![t] = "resolve"]
                /\ UNCHANGED ret
    /\ UNCHANGED <<auxVars, storeVars, indexVars, procVars, lastIngested, envVars>>

\* items = await self.db.get_active_items_by_ids(merged_ids); the SELECT
\* has no ORDER BY, the rows come in whatever order the engine picks.
RetrieveResolve(t) ==
    /\ boot = "up"
    /\ pc[t] = "resolve"
    /\ \E order \in Orderings(GetActiveItemsByIds(loc[t].merged_ids)) :
          ret' = [ret EXCEPT ![t] = ContextReturn(loc[t], "ok",
                    [n \in DOMAIN order |->
                        [id |-> order[n], kind |-> items[order[n]].kind,
                         text |-> items[order[n]].text]])]
    /\ pc' = [pc EXCEPT ![t] = "idle"]
    /\ loc' = [loc EXCEPT ![t] = IdleLoc]
    /\ UNCHANGED <<auxVars, storeVars, indexVars, procVars, lastIngested, envVars>>

\* ------------------------------------------------ MemoryGate.process
\* A task calls process(thread_id, user_input, agent_response).
ProcessStart(t) ==
    /\ boot = "up"
    /\ pc[t] = "idle"
    /\ turn[t].stage \in {"none", "returned", "raised"}
    /\ Len(history) < 2 * MaxTurns
    /\ turn' = [turn EXCEPT ![t] = [NoTurn EXCEPT !.stage = "hist_user",
                                                  !.before = items,
                                                  !.logged = Len(history)]]
    /\ ret' = [ret EXCEPT ![t] = NoRet]
    /\ UNCHANGED <<storeVars, indexVars, procVars, pc, loc, lastIngested,
                   envVars, history, cancels, laneVars, sideVars, lockVars>>

\* await self.db.add_history(thread_id, role, content): the INSERT runs
\* under the store lock; an sqlite3 error leaves add_history and process.
AddHistory(t, ok) ==
    /\ boot = "up"
    /\ turn[t].stage \in {"hist_user", "hist_assistant"}
    /\ ok \/ faults < MaxFaults
    /\ IF ok
       THEN /\ history' = Append(history,
                   IF turn[t].stage = "hist_user" THEN "user" ELSE "assistant")
            /\ turn' = [turn EXCEPT ![t].stage =
                   IF turn[t].stage = "hist_user" THEN "hist_assistant"
                   ELSE "retrieve"]
            /\ UNCHANGED faults
       ELSE /\ turn' = [turn EXCEPT ![t].stage = "raised"]
            /\ faults' = faults + 1
            /\ UNCHANGED history
    /\ UNCHANGED <<storeVars, indexVars, procVars, pc, loc, ret, lastIngested,
                   crashes, corruptions, cancels, laneVars, sideVars, lockVars>>

\* relevant_context = await self.store.get_relevant_context(conversation,
\* top_k=10): the call is made once the two history rows are written.
ProcessRetrieve(t, query, ok) ==
    /\ turn[t].stage = "retrieve"
    /\ ret[t].op = "none"
    /\ RetrieveVector(t, query, ProcessTopK, ok)

\* The extractor as it would be with its exceptions left to propagate.
ProcessExtractUnguarded(t, outcome, memory) ==
    /\ boot = "up"
    /\ turn[t].stage = "retrieve"
    /\ pc[t] = "idle"
    /\ ret[t].op = "get_relevant_context"
    /\ turn' = [turn EXCEPT ![t] =
          IF ret[t].status = "raised" THEN [@ EXCEPT !.stage = "raised"]
          ELSE IF outcome = "important"
          THEN [@ EXCEPT !.stage = "apply", !.extraction = outcome,
                         !.memory = memory]
          ELSE IF outcome = "unimportant"
          THEN [@ EXCEPT !.stage = "returned", !.extraction = outcome]
          ELSE [@ EXCEPT !.stage = "raised", !.extraction = outcome]]
    /\ UNCHANGED <<engineVars, history, cancels, laneVars, sideVars, lockVars>>

\* The extraction step as it would be if process did not look at the
\* important flag of the output.
ProcessExtractAlwaysApplies(t, outcome, memory) ==
    /\ boot = "up"
    /\ turn[t].stage = "retrieve"
    /\ pc[t] = "idle"
    /\ ret[t].op = "get_relevant_context"
    /\ turn' = [turn EXCEPT ![t] =
          IF ret[t].status = "raised" THEN [@ EXCEPT !.stage = "raised"]
          ELSE IF outcome \in {"important", "unimportant"}
          THEN [@ EXCEPT !.stage = "apply", !.extraction = outcome,
                         !.memory = memory]
          ELSE [@ EXCEPT !.stage = "returned", !.extraction = outcome]]
    /\ UNCHANGED <<engineVars, history, cancels, laneVars, sideVars, lockVars>>

\* get_relevant_context has returned (or raised, which ends process);
\* result = await memory_agent.run(...) inside try / except Exception:
\* a raising agent or an output that does not validate is logged, an
\* output with important = False is skipped, an important one goes on to
\* apply_updates.
ProcessExtract(t, outcome, memory) ==
    /\ boot = "up"
    /\ turn[t].stage = "retrieve"
    /\ pc[t] = "idle"
    /\ ret[t].op = "get_relevant_context"
    /\ turn' = [turn EXCEPT ![t] =
          IF ret[t].status = "raised" THEN [@ EXCEPT !.stage = "raised"]
          ELSE IF outcome = "important"
          THEN [@ EXCEPT !.stage = "apply", !.extraction = outcome,
                         !.memory = memory]
          ELSE IF outcome = "unimportant"
          THEN [@ EXCEPT !.stage = "returned", !.extraction = outcome,
                         !.memory = memory]
          ELSE [@ EXCEPT !.stage = "returned", !.extraction = outcome]]
    /\ UNCHANGED <<engineVars, history, cancels, laneVars, sideVars, lockVars>>

\* await self.store.apply_updates(memory, source_thread_id=thread_id)
ProcessApply(t) ==
    /\ turn[t].stage = "apply"
    /\ ret[t].op = "get_relevant_context"
    /\ StartApplyUpdates(t, turn[t].memory)

\* apply_updates has returned: process logs the counts and returns.
ProcessReturn(t) ==
    /\ boot = "up"
    /\ turn[t].stage = "apply"
    /\ pc[t] = "idle"
    /\ ret[t].op = "apply_updates"
    /\ turn' = [turn EXCEPT ![t].stage = "returned"]
    /\ UNCHANGED <<engineVars, history, cancels, laneVars, sideVars, lockVars>>

\* ------------------------------------------------ lock discipline
\* The same calls seen as the sequence of lock acquisitions, releases and
\* store / index operations they perform.  DatabaseClient._lock is "db",
\* ZvecMemoryStore._zvec_write_lock is "zvec".
Locks == {"db", "zvec"}

StoreMutations ==
    {"add_history", "insert_memory_item", "tombstone_by_content",
     "touch_item", "mark_items_indexed"}

StoreReads ==
    {"item_exists_by_text", "get_active_items_by_ids", "search_fts",
     "fetch_pending_items", "fetch_all"}

IndexWrites == {"ensure_health_doc", "upsert", "flush"}

\* async with self._lock: await asyncio.to_thread(op)
DbLocked(op) == <<(<<"acquire", "db">>), (<<"call", op>>), (<<"release", "db">>)>>

\* await asyncio.to_thread(op), no lock
Unlocked(op) == <<(<<"call", op>>)>>

AddHistoryProgram == DbLocked("add_history")
TombstoneProgram == DbLocked("tombstone_by_content")
TouchItemProgram == DbLocked("touch_item")
InsertMemoryItemProgram == DbLocked("insert_memory_item")
MarkItemsIndexedProgram == Unlocked("mark_items_indexed")

\* apply_updates for one candidate text: with or without obsolete items,
\* ending in a touch (exact or semantic hit) or in an insert.
ApplyUpdatesPrograms ==
    { TombstoneProgram \o Unlocked("item_exists_by_text") \o TouchItemProgram,
      Unlocked("item_exists_by_text") \o Unlocked("embed") \o Unlocked("query")
          \o TouchItemProgram,
      Unlocked("item_exists_by_text") \o Unlocked("embed") \o Unlocked("query")
          \o InsertMemoryItemProgram }

GetRelevantContextProgram ==
    Unlocked("embed") \o Unlocked("query") \o Unlocked("search_fts")
        \o Unlocked("get_active_items_by_ids")

ProcessPrograms ==
    { AddHistoryProgram \o AddHistoryProgram \o GetRelevantContextProgram
          \o Unlocked("extract") \o p : p \in ApplyUpdatesPrograms }

\* sync_pending_memories as it would be with the mark made inside the
\* index write section, under the store lock.
SyncPendingNestedProgram ==
    Unlocked("fetch_pending_items") \o Unlocked("embed")
        \o <<(<<"acquire", "zvec">>), (<<"call", "ensure_health_doc">>),
             (<<"call", "upsert">>), (<<"call", "flush">>)>>
        \o DbLocked("mark_items_indexed")
        \o <<(<<"release", "zvec">>)>>

SyncPendingProgram ==
    Unlocked("fetch_pending_items") \o Unlocked("embed")
        \o <<(<<"acquire", "zvec">>), (<<"call", "ensure_health_doc">>),
             (<<"call", "upsert">>), (<<"call", "flush">>),
             (<<"release", "zvec">>)>>
        \o MarkItemsIndexedProgram

RebuildProgram ==
    Unlocked("fetch_all") \o Unlocked("embed")
        \o <<(<<"acquire", "zvec">>), (<<"call", "upsert">>),
             (<<"call", "flush">>), (<<"release", "zvec">>)>>
        \o MarkItemsIndexedProgram

\* initialize_skills as it would be without the write lock.
InitializeSkillsUnlockedProgram ==
    Unlocked("embed") \o <<(<<"call", "upsert">>), (<<"call", "flush">>)>>

InitializeSkillsProgram ==
    Unlocked("embed")
        \o <<(<<"acquire", "zvec">>), (<<"call", "upsert">>),
             (<<"call", "flush">>), (<<"release", "zvec">>)>>

Programs ==
    ProcessPrograms \cup ApplyUpdatesPrograms
        \cup {SyncPendingProgram, RebuildProgram, InitializeSkillsProgram}

Holder(lock) == {t \in Tasks : lock \in held[t]}

\* A task starts one of the calls.
StartCall(t, program) ==
    /\ prog[t] = <<>>
    /\ running[t] = "none"
    /\ held[t] = {}
    /\ prog' = [prog EXCEPT ![t] = program]
    /\ UNCHANGED <<engineVars, gateVars, cancels, laneVars, sideVars, held, running>>

\* asyncio.Lock.acquire: proceeds only when nobody holds the lock.
Acquire(t) ==
    /\ prog[t] # <<>>
    /\ running[t] = "none"
    /\ Head(prog[t])[1] = "acquire"
    /\ Holder(Head(prog[t])[2]) = {}
    /\ held' = [held EXCEPT ![t] = @ \cup {Head(prog[t])[2]}]
    /\ prog' = [prog EXCEPT ![t] = Tail(@)]
    /\ UNCHANGED <<engineVars, gateVars, cancels, laneVars, sideVars, running>>

\* leaving the async with block
Release(t) ==
    /\ prog[t] # <<>>
    /\ running[t] = "none"
    /\ Head(prog[t])[1] = "release"
    /\ held' = [held EXCEPT ![t] = @ \ {Head(prog[t])[2]}]
    /\ prog' = [prog EXCEPT ![t] = Tail(@)]
    /\ UNCHANGED <<engineVars, gateVars, cancels, laneVars, sideVars, running>>

\* the operation starts executing (in a worker thread for to_thread)
BeginOp(t) ==
    /\ prog[t] # <<>>
    /\ running[t] = "none"
    /\ Head(prog[t])[1] = "call"
    /\ running' = [running EXCEPT ![t] = Head(prog[t])[2]]
    /\ UNCHANGED <<engineVars, gateVars, cancels, laneVars, sideVars, held, prog>>

\* the operation has finished
EndOp(t) ==
    /\ running[t] # "none"
    /\ running' = [running EXCEPT ![t] = "none"]
    /\ prog' = [prog EXCEPT ![t] = Tail(@)]
    /\ UNCHANGED <<engineVars, gateVars, cancels, laneVars, sideVars, held>>

\* ------------------------------------------------ get_relevant_skills
SkillThreshold == 75         \* threshold=0.75, in hundredths
SkillTopK == 2               \* MemoryGate.get_relevant_skills: top_k=2
SkillQueries == {"sq", "q"}

\* Contents of the skill index after initialize and initialize_skills: the
\* sentinel alone (no skill embedded), or the sentinel and the skills.
SkillIndexes ==
    { EnsureHealthDoc(<<>>),
      Upsert(EnsureHealthDoc(<<>>),
             << <<1, <<"vec", "s1">> >>, <<2, <<"vec", "s2">> >> >>) }

\* The loop over the results: skip the sentinel, skip scores below the
\* threshold, keep each skill id once.
RECURSIVE AcceptedSkills(_, _, _, _)
AcceptedSkills(results, docs, vector, skill_names) ==
    IF results = <<>> THEN skill_names
    ELSE LET id == Head(results)
         IN  AcceptedSkills(Tail(results), docs, vector,
                IF id = HEALTH_ID THEN skill_names
                ELSE IF Score(docs[id], vector) < SkillThreshold THEN skill_names
                ELSE IF id \in Range(skill_names) THEN skill_names
                ELSE Append(skill_names, id))

SkillsReturn(query, status, ids) ==
    [NoRet EXCEPT !.op = "get_relevant_skills", !.status = status,
                  !.query = query, !.top_k = SkillTopK, !.ids = ids]

\* get_relevant_skills(query, top_k=2): the ids of the skills whose prompts
\* are returned (none: the general fallback prompt).
RetrieveSkills(t, query, docs, ok) ==
    /\ boot = "up"
    /\ pc[t] = "idle"
    /\ ok \/ faults < MaxFaults
    /\ faults' = IF ok THEN faults ELSE faults + 1
    /\ LET vectors == Embed(<<query>>, ok)
       IN  IF vectors = <<>>
           THEN \* [][0]: IndexError leaves get_relevant_skills
                ret' = [ret EXCEPT ![t] = SkillsReturn(query, "raised", <<>>)]
           ELSE ret' = [ret EXCEPT ![t] = SkillsReturn(query, "ok",
                    Take(AcceptedSkills(
                            CollectionQuery(docs, vectors[1], SkillTopK * 5),
                            docs, vectors[1], <<>>),
                         SkillTopK))]
    /\ UNCHANGED <<auxVars, storeVars, indexVars, procVars, pc, loc,
                   lastIngested, crashes, corruptions>>

SkillsCall(t) ==
    \E query \in SkillQueries, docs \in SkillIndexes, ok \in BOOLEAN :
        RetrieveSkills(t, query, docs, ok)

\* ------------------------------------------------ specifications
Ingest(t) ==
    \/ \E memory \in Extractions : StartApplyUpdates(t, memory)
    \/ ApplyTombstone(t)
    \/ ExactCheck(t)
    \/ \E ok \in BOOLEAN : SemanticDedup(t, ok)
    \/ TouchExisting(t)
    \/ InsertNew(t)

Sync(t) ==
    \/ \E ok \in BOOLEAN : SyncFetch(t, ok)
    \/ \E outcome \in {"ok", "upsert_raises", "flush_raises"} :
          SyncUpsert(t, outcome)
    \/ SyncMark(t)

Retrieve(t) ==
    \/ \E query \in Queries, top_k \in 1..MaxTopK, ok \in BOOLEAN :
          RetrieveVector(t, query, top_k, ok)
    \/ RetrieveFts(t)
    \/ RetrieveResolve(t)

Startup ==
    \/ Initialize
    \/ \E ok \in BOOLEAN : RebuildFetch(ok)
    \/ InitializeDone

Recovery ==
    \/ \E ok \in BOOLEAN : RebuildUpsert(ok)
    \/ RebuildMark
    \/ Crash
    \/ \E damage \in {"unopenable", "badprobe"} : Corrupt(damage)

\* The write path (apply_updates, sync_pending_memories) with calls made one
\* after the other by a single task, across crashes, corruptions and restarts.
Next ==
    \/ Startup
    \/ Recovery
    \/ Ingest(Writer)
    \/ Sync(Writer)

Spec == Init /\ [][Next]_vars

\* Two tasks run apply_updates and sync_pending_memories concurrently.
NextRace ==
    \/ Startup
    \/ \E t \in Tasks : Ingest(t)
    \/ \E t \in Tasks : Sync(t)

SpecRace == Init /\ [][NextRace]_vars

\* One task writes (apply_updates, sync_pending_memories) while another
\* one runs get_relevant_context.
NextRead ==
    \/ Startup
    \/ Ingest(Writer)
    \/ Sync(Writer)
    \/ Retrieve(Reader)

SpecRead == Init /\ [][NextRead]_vars

\* _run_memorygate: one task runs process for turn after turn, each followed
\* by sync_pending_memories.
Process(t) ==
    \/ ProcessStart(t)
    \/ \E ok \in BOOLEAN : AddHistory(t, ok)
    \/ \E query \in Queries, ok \in BOOLEAN : ProcessRetrieve(t, query, ok)
    \/ RetrieveFts(t)
    \/ RetrieveResolve(t)
    \/ \E outcome \in ExtractorOutcomes, memory \in TurnMemories :
          ProcessExtract(t, outcome, memory)
    \/ ProcessApply(t)
    \/ ApplyTombstone(t)
    \/ ExactCheck(t)
    \/ \E ok \in BOOLEAN : SemanticDedup(t, ok)
    \/ TouchExisting(t)
    \/ InsertNew(t)
    \/ ProcessReturn(t)

SyncAfterTurn(t) ==
    \/ /\ turn[t].stage = "returned"
       /\ \E ok \in BOOLEAN : SyncFetch(t, ok)
    \/ \E outcome \in {"ok", "upsert_raises", "flush_raises"} :
          SyncUpsert(t, outcome)
    \/ SyncMark(t)

NextGate ==
    \/ Startup
    \/ Process(Writer)
    \/ SyncAfterTurn(Writer)
    \/ SkillsCall(Reader)

SpecGate == Init /\ [][NextGate]_vars

\* One task ingests while another one keeps calling sync_pending_memories,
\* with embedding, upsert and flush succeeding; the sync task can be
\* cancelled and the process can crash and restart.
LiveMemories ==
    { [NoMemory EXCEPT !.facts = <<"a", "b">>],
      [NoMemory EXCEPT !.obsolete_items = <<"b">>] }

IngestLive(t) ==
    \/ \E memory \in LiveMemories : StartApplyUpdates(t, memory)
    \/ ApplyTombstone(t)
    \/ ExactCheck(t)
    \/ SemanticDedup(t, TRUE)
    \/ TouchExisting(t)
    \/ InsertNew(t)

SyncFetchLive(t) == \E limit \in BatchSizes : SyncFetchBatch(t, limit, TRUE)

SyncUpsertLive(t) == SyncUpsert(t, "ok")

StartupLive ==
    \/ Initialize
    \/ RebuildFetch(TRUE)
    \/ InitializeDone

NextLive ==
    \/ StartupLive
    \/ IngestLive(Writer)
    \/ SyncFetchLive(Syncer)
    \/ SyncUpsertLive(Syncer)
    \/ SyncMark(Syncer)
    \/ \E marked \in BOOLEAN : CancelSync(Syncer, marked)
    \/ Crash

\* What the event loop and the service manager keep doing: the process is
\* restarted after a crash, and the sync task is called again and again and
\* resumed at each of its awaits.
Scheduled ==
    \/ StartupLive
    \/ SyncFetchLive(Syncer)
    \/ SyncUpsertLive(Syncer)
    \/ SyncMark(Syncer)

SpecLive ==
    /\ Init
    /\ [][NextLive]_vars
    /\ WF_vars(Scheduled)

\* Any task runs any of the calls, interleaved at every lock operation and
\* at the start and the end of every store / index operation.
NextLocks ==
    \E t \in Tasks :
        \/ \E program \in Programs : StartCall(t, program)
        \/ Acquire(t)
        \/ Release(t)
        \/ BeginOp(t)
        \/ EndOp(t)

SpecLocks == Init /\ [][NextLocks]_vars

\* ================================================== properties
ActiveIds == {i \in ItemIds : items[i].status = "active"}

RowIds(rows) == {rows[n].id : n \in 1..Len(rows)}

\* ---- C1 (SpecRace).  For each text at most one item with that text is
\* Active, whatever the interleaving of apply_updates and sync calls.
C1_OneActivePerText ==
    \A i, j \in ActiveIds : items[i].text = items[j].text => i = j

\* ---- C2 (Spec).  As claimed: when the same text has been ingested twice
\* in a row, exactly one Active item carries it, its updated_ts is the time
\* of the second ingestion, and the second ingestion created nothing.
C2_TwiceYieldsExactlyOne ==
    lastIngested.repeat =>
        /\ Cardinality(ItemExistsByText(lastIngested.text)) = 1
        /\ \A i \in ItemExistsByText(lastIngested.text) :
              items[i].updated_ts = clock
        /\ ~lastIngested.created

\* ---- C2 (Spec), amended.  When the same text has been ingested twice in a
\* row there is at most one Active item with it, never two; if there is
\* one, it is the item the second ingestion wrote and its updated_ts is the
\* time of that ingestion; if there is none, the second ingestion created
\* nothing and touched a record scoring above 0.92 against the text.
C2_TwiceYieldsAtMostOne ==
    lastIngested.repeat =>
        /\ Cardinality(ItemExistsByText(lastIngested.text)) <= 1
        /\ \A i \in ItemExistsByText(lastIngested.text) :
              /\ i = lastIngested.item
              /\ items[i].updated_ts = clock
        /\ ItemExistsByText(lastIngested.text) = {} =>
              /\ ~lastIngested.created
              /\ items[lastIngested.item].updated_ts = clock
              /\ Score(<<"vec", items[lastIngested.item].text>>,
                       <<"vec", lastIngested.text>>) > DedupThreshold

\* The second ingestion of a text found the item of the first one and
\* refreshed it.
C2_Witness ==
    /\ lastIngested.repeat
    /\ ~lastIngested.created
    /\ ItemExistsByText(lastIngested.text) = {lastIngested.item}
    /\ items[lastIngested.item].created_ts < items[lastIngested.item].updated_ts

\* ---- C3 (Spec).  Once MemoryGate.initialize has completed, no Active
\* item is marked indexed without a vector record in the memory index
\* (stated for runs in which no embedding or index call failed).
C3_SelfHealing ==
    (boot = "up" /\ faults = 0) =>
        \A i \in ActiveIds : items[i].indexed => i \in DOMAIN zdocs

\* ---- C4 (Spec).  When the rebuild_from_sqlite run by initialize has
\* finished, every Active item has a vector record and indexed = true, and
\* needs_rebuild is false.
C4_RebuildRestoresAll ==
    (boot = "opened" /\ rb.done) =>
        /\ ~needs_rebuild
        /\ \A i \in ActiveIds : i \in DOMAIN zdocs /\ items[i].indexed

\* ---- C5 (Spec).  A sync_pending or rebuild call in which embedding,
\* upsert or flush failed leaves the indexed flag of every item of its batch
\* as it was.
C5_FailureKeepsIndexed ==
    [][/\ (boot = "rebuild_mark" /\ (~rb.embedded \/ ~rb.upserted)) =>
             \A i \in Range(rb.ids) : items'[i].indexed = items[i].indexed
       /\ \A t \in Tasks :
             (ret'[t] # ret[t] /\ ret'[t].op = "sync_pending"
                 /\ ret'[t].status = "failed") =>
             \A i \in Range(ret'[t].ids) : items'[i].indexed = items[i].indexed
      ]_vars

\* ---- C6 (Spec).  Whenever an item's indexed flag goes from false to
\* true, a vector record with its id is in the memory index.
C6_IndexedOnlyWithRecord ==
    [][\A i \in ItemIds :
          (~items[i].indexed /\ items'[i].indexed) => i \in DOMAIN zdocs'
      ]_vars

\* ---- C7 (SpecRead).  Every row get_relevant_context returns is the row of
\* an item that is Active when get_active_items_by_ids resolves the ids: a
\* Tombstoned item contributes no line, with or without a vector record or
\* a keyword entry.
C7_NoTombstonedInContext ==
    [][\A t \in Tasks :
          (pc[t] = "resolve" /\ pc'[t] = "idle") =>
             \A n \in 1..Len(ret'[t].rows) :
                /\ items[ret'[t].rows[n].id].status = "active"
                /\ ret'[t].rows[n].text = items[ret'[t].rows[n].id].text
                /\ Render(ret'[t].rows)[n][2] = items[ret'[t].rows[n].id].text
      ]_vars

\* A call returned rows although a Tombstoned item, whose vector record and
\* keyword entry are still there, was among the fused ids.
C7_Witness ==
    \E t \in Tasks : \E i \in ItemIds :
        /\ ret[t].op = "get_relevant_context"
        /\ ret[t].rows # <<>>
        /\ items[i].status = "tombstoned"
        /\ i \in DOMAIN zdocs
        /\ i \in Range(fts)
        /\ i \in Range(MergedIds(ret[t].zvec_ranked, ret[t].fts_ranked,
                                 ret[t].top_k))
        /\ i \notin RowIds(ret[t].rows)

\* ---- C8 (Spec).  As claimed: a vector record for an item appears only in
\* an upsert of sync_pending_memories whose batch contains the item.
C8_RecordOnlyBySync ==
    [][\A i \in 1..Len(items') :
          (i \notin DOMAIN zdocs /\ i \in DOMAIN zdocs') =>
             \E t \in Tasks :
                pc[t] = "upsert" /\ i \in Range(DocIds(loc[t].ids))
      ]_vars

\* ---- C8 (Spec), amended.  A freshly inserted item has no vector record; a
\* record for an item appears only in an upsert of sync_pending_memories or
\* of rebuild_from_sqlite whose batch contains the item; and when a
\* sync_pending_memories call has upserted and flushed, and when it returns
\* after marking, every item of its batch has a record.
C8_RecordOnlyBySyncOrRebuild ==
    [][/\ \A i \in 1..Len(items') :
             (i \notin DOMAIN zdocs /\ i \in DOMAIN zdocs') =>
                \/ \E t \in Tasks :
                      pc[t] = "upsert" /\ i \in Range(DocIds(loc[t].ids))
                \/ boot = "rebuild_upsert" /\ i \in Range(rb.ids)
       /\ Len(items') > Len(items) => Len(items') \notin DOMAIN zdocs'
       /\ \A t \in Tasks :
             (pc[t] = "upsert" /\ pc'[t] = "mark") =>
                Range(DocIds(loc[t].ids)) \subseteq DOMAIN zdocs'
       /\ \A t \in Tasks :
             (pc[t] = "mark" /\ pc'[t] = "idle" /\ boot' = "up") =>
                Range(ret'[t].ids) \subseteq DOMAIN zdocs'
      ]_vars

\* A sync call has returned after upserting, flushing and marking its batch:
\* every item of the batch has its record.
C8_Witness ==
    \E t \in Tasks :
        /\ ret[t].op = "sync_pending"
        /\ ret[t].status = "ok"
        /\ ret[t].ids # <<>>
        /\ Range(ret[t].ids) \subseteq DOMAIN zdocs
        /\ \A i \in Range(ret[t].ids) : items[i].indexed

\* The item the vector search of a returned call ranked first, inserted and
\* synced and still Active.
NearestSynced(t) ==
    IF /\ ret[t].op = "get_relevant_context"
       /\ ret[t].status = "ok"
       /\ ret[t].zvec_ranked # <<>>
       /\ ret[t].zvec_ranked[1] \in ActiveIds
       /\ items[ret[t].zvec_ranked[1]].indexed
    THEN {ret[t].zvec_ranked[1]} ELSE {}

InBothLists(t) == Range(ret[t].zvec_ranked) \cap Range(ret[t].fts_ranked)

\* ---- C9 (SpecRead).  As claimed: a synced, still Active item that is the
\* nearest vector neighbour of the query is in the result.
C9_NearestIsReturned ==
    \A t \in Tasks : \A i \in NearestSynced(t) : i \in RowIds(ret[t].rows)

\* ---- C9 (SpecRead), amended.  A synced, still Active item that the vector
\* search ranks first is in the result whenever fewer than top_k other ids
\* appear in both the vector list and the keyword list.
C9_NearestIsReturnedUnlessOutscored ==
    \A t \in Tasks : \A i \in NearestSynced(t) :
        Cardinality(InBothLists(t) \ {i}) < ret[t].top_k =>
            i \in RowIds(ret[t].rows)

\* The nearest item was returned next to an id that both searches found.
C9_Witness ==
    \E t \in Tasks : \E i \in NearestSynced(t) :
        /\ InBothLists(t) \ {i} # {}
        /\ Cardinality(InBothLists(t) \ {i}) < ret[t].top_k
        /\ i \in RowIds(ret[t].rows)

\* ---- C10 (SpecRead).  get_relevant_context never raises: a request whose
\* embedding failed still returns (the keyword matches).
C10_RetrievalNeverRaises ==
    \A t \in Tasks :
        ret[t].op = "get_relevant_context" => ret[t].status # "raised"

\* ---- C11 (SpecGate).  When the extractor raises or hands back malformed
\* output, process returns normally, the items table is exactly as it was
\* when process was called (nothing inserted, tombstoned or touched), and
\* the user row and the assistant row of the turn are in the history.
C11_ExtractorFailureIsHarmless ==
    [][\A t \in Tasks :
          (turn[t].stage = "retrieve" /\ turn'[t].stage # "retrieve"
              /\ turn'[t].extraction \in {"raises", "malformed"}) =>
             /\ turn'[t].stage = "returned"
             /\ items' = turn[t].before
             /\ Len(history') >= turn[t].logged + 2
             /\ history'[turn[t].logged + 1] = "user"
             /\ history'[turn[t].logged + 2] = "assistant"
      ]_vars

\* A turn whose extraction failed has returned while the store held items.
C11_Witness ==
    \E t \in Tasks :
        /\ turn[t].stage = "returned"
        /\ turn[t].extraction \in {"raises", "malformed"}
        /\ turn[t].before # <<>>
        /\ items = turn[t].before
        /\ Len(history) = turn[t].logged + 2

\* ---- C12 (SpecGate).  add_history never fails its caller: a task inside
\* one of the two add_history calls of process never leaves process by an
\* exception.
C12_HistoryErrorNotPropagated ==
    [][\A t \in Tasks :
          turn[t].stage \in {"hist_user", "hist_assistant"} =>
             turn'[t].stage # "raised"
      ]_vars

\* ---- C13 (SpecLocks).  Every operation that changes rows of the store
\* runs with the store lock held, so no two of them run at the same time;
\* the read operations run without the lock.
C13_StoreMutationsSerialized ==
    /\ \A t \in Tasks : running[t] \in StoreMutations => "db" \in held[t]
    /\ \A t, u \in Tasks :
          (running[t] \in StoreMutations /\ running[u] \in StoreMutations)
              => t = u
    /\ \A t \in Tasks : running[t] \in StoreReads => "db" \notin held[t]

\* A task waiting for a lock that is held.
Blocked(t) ==
    /\ prog[t] # <<>>
    /\ running[t] = "none"
    /\ Head(prog[t])[1] = "acquire"
    /\ Holder(Head(prog[t])[2]) # {}

\* ---- C14 (SpecLocks).  No task holds the store lock and the index write
\* lock together, and a task that waits for a lock waits for a holder that
\* is itself not waiting: there is no deadlock.
C14_LocksNeverNested ==
    /\ \A t \in Tasks : Cardinality(held[t]) <= 1
    /\ \A t \in Tasks :
          Blocked(t) =>
             \A u \in Holder(Head(prog[t])[2]) : u # t /\ ~Blocked(u)

\* Both locks are held, by different tasks, and a third party waits for
\* neither: one task is in a store mutation, the other in the write path.
C14_Witness ==
    \E t, u \in Tasks :
        /\ t # u
        /\ held[t] = {"db"}
        /\ held[u] = {"zvec"}
        /\ running[t] \in StoreMutations
        /\ running[u] \in IndexWrites

\* ---- C15 (SpecLocks).  Sentinel check, upsert and flush only run with the
\* index write lock held, and while one task is in that section no other
\* task runs an upsert or a flush.
C15_IndexWritePathExclusive ==
    /\ \A t \in Tasks : running[t] \in IndexWrites => "zvec" \in held[t]
    /\ \A t, u \in Tasks :
          ("zvec" \in held[t] /\ running[u] \in IndexWrites) => t = u
    /\ Cardinality(Holder("zvec")) <= 1

\* One task is flushing inside the write section while another one has
\* reached its own write section and waits for the lock.
C15_Witness ==
    \E t, u \in Tasks :
        /\ t # u
        /\ running[t] = "flush"
        /\ "zvec" \in held[t]
        /\ Blocked(u)
        /\ Head(prog[u])[2] = "zvec"

\* ---- C16 (SpecLive).  While sync_pending_memories keeps being called and
\* embedding, upsert and flush succeed, every Active item with indexed =
\* false eventually has a vector record and indexed = true (unless it is
\* tombstoned first); each call takes at most its batch size; a cancelled
\* call and a crash never mark an item indexed that has no vector record, and
\* a crash leaves the items table as it is.
C16_PendingEventuallyIndexed ==
    /\ \A i \in 1..MaxClock :
          (i \in ActiveIds /\ ~items[i].indexed) ~>
             (/\ i \in ItemIds
              /\ \/ items[i].status = "tombstoned"
                 \/ items[i].indexed /\ i \in DOMAIN zdocs)
    /\ [][/\ \A i \in ItemIds :
                (~items[i].indexed /\ items'[i].indexed) => i \in DOMAIN zdocs'
          /\ \A t \in Tasks :
                (pc[t] = "idle" /\ pc'[t] = "upsert") =>
                   \E limit \in BatchSizes :
                      /\ Len(loc'[t].ids) <= limit
                      /\ DocIds(loc'[t].ids) = FetchPendingItems(limit)
          /\ crashes' # crashes => items' = items
         ]_vars

\* After a crash and a cancellation, a call that took a single item of a
\* larger backlog has returned and every Active item is indexed with its
\* vector record.
C16_Witness ==
    /\ crashes > 0
    /\ cancels > 0
    /\ ret[Syncer].op = "sync_pending"
    /\ ret[Syncer].status = "ok"
    /\ Len(ret[Syncer].ids) = 1
    /\ Cardinality(ActiveIds) >= 2
    /\ \A i \in ActiveIds : items[i].indexed /\ i \in DOMAIN zdocs

\* Rank (0-based) of an id in a candidate list.
RankIn(list, id) ==
    (CHOOSE n \in 1..Len(list) :
        list[n] = id /\ \A m \in 1..(n - 1) : list[m] # id) - 1

\* 1 / (60 + rank + 1) for a list that contains the id, 0 otherwise.
Contribution(list, id) ==
    IF id \in Range(list) THEN <<1, RRF_K + RankIn(list, id) + 1>> ELSE <<0, 1>>

FusedScore(zvec_ranked, fts_ranked, id) ==
    LET v == Contribution(zvec_ranked, id)
        k == Contribution(fts_ranked, id)
    IN  <<v[1] * k[2] + k[1] * v[2], v[2] * k[2]>>

Candidates(t) == Range(ret[t].zvec_ranked) \cup Range(ret[t].fts_ranked)

\* ---- C17 (SpecRead).  For every returned call: each list has at most
\* 2 * top_k ids; the score the merge gives an id is the sum over the lists
\* containing it of 1 / (60 + rank + 1), one term per list; the ids handed
\* to get_active_items_by_ids are min(top_k, candidates) distinct
\* candidates none of which is outscored by a candidate left out; and the
\* rows come from those ids, at most top_k of them.
C17_FusedScoreAndTopK ==
    \A t \in Tasks :
        (ret[t].op = "get_relevant_context" /\ ret[t].status = "ok") =>
            LET z == ret[t].zvec_ranked
                f == ret[t].fts_ranked
                k == ret[t].top_k
                merged == MergedIds(z, f, k)
            IN  /\ Len(z) <= 2 * k
                /\ Len(f) <= 2 * k
                /\ DOMAIN RrfScores(z, f) = Candidates(t)
                /\ \A id \in Candidates(t) :
                      RrfScores(z, f)[id][1] * FusedScore(z, f, id)[2]
                          = FusedScore(z, f, id)[1] * RrfScores(z, f)[id][2]
                /\ Len(merged) = IF Cardinality(Candidates(t)) < k
                                 THEN Cardinality(Candidates(t)) ELSE k
                /\ Cardinality(Range(merged)) = Len(merged)
                /\ Range(merged) \subseteq Candidates(t)
                /\ \A m \in Range(merged) :
                      \A c \in Candidates(t) \ Range(merged) :
                         ~ScoreGT(FusedScore(z, f, c), FusedScore(z, f, m))
                /\ RowIds(ret[t].rows) \subseteq Range(merged)
                /\ Len(ret[t].rows) <= k

\* A call returned top_k rows out of more candidates, one of the rows found
\* by both searches, one of the candidates by a single search.
C17_Witness ==
    \E t \in Tasks :
        /\ ret[t].op = "get_relevant_context"
        /\ ret[t].status = "ok"
        /\ Cardinality(Candidates(t)) > ret[t].top_k
        /\ Len(ret[t].rows) = ret[t].top_k
        /\ \E id \in RowIds(ret[t].rows) :
              id \in Range(ret[t].zvec_ranked) \cap Range(ret[t].fts_ranked)
        /\ \E id \in Candidates(t) :
              id \notin Range(ret[t].zvec_ranked) \cap Range(ret[t].fts_ranked)

\* Place of an item in the returned lines.
RowPlace(rows, id) == CHOOSE n \in 1..Len(rows) : rows[n].id = id

\* ---- C18 (SpecGate).  In a returned result that holds an item B ranked
\* first by the vector search and absent from the keyword list, an item A of
\* the keyword list, and an item C absent from the keyword list and below A
\* and B in the vector list, the lines of A and B come before the line of C.
C18_FusedOrderInResult ==
    \A t \in Tasks :
        (ret[t].op = "get_relevant_context" /\ ret[t].status = "ok") =>
            \A A, B, C \in RowIds(ret[t].rows) :
                LET z == ret[t].zvec_ranked
                    f == ret[t].fts_ranked
                IN  (/\ A # B /\ A # C /\ B # C
                     /\ z # <<>> /\ z[1] = B /\ B \notin Range(f)
                     /\ A \in Range(f) /\ A \in Range(z)
                     /\ C \in Range(z) /\ C \notin Range(f)
                     /\ RankIn(z, A) < RankIn(z, C)
                     /\ RankIn(z, B) < RankIn(z, C))
                    => /\ RowPlace(ret[t].rows, A) < RowPlace(ret[t].rows, C)
                       /\ RowPlace(ret[t].rows, B) < RowPlace(ret[t].rows, C)

\* ------------------------------------------------ DatabaseClient, called directly
Kinds == {"pref", "fact"}   \* two of the kinds of the CHECK constraint
StoreTexts == {"a", "b"}
SearchLimit == 20            \* search_fts(query, limit=20)

StoreReturn(op, ids) == [NoRet EXCEPT !.op = op, !.status = "ok", !.ids = ids]

\* await db.insert_memory_item(item_id, kind, text): the id is a fresh one
\* or the id of a row of the table.
InsertItemCall(t, item_id, kind, text) ==
    /\ pc[t] = "idle"
    /\ clock < MaxClock
    /\ item_id \in 1..(Len(items) + 1)
    /\ LET written == InsertMemoryItem(item_id, kind, text, clock + 1)
       IN  /\ items' = written.rows
           /\ fts' = written.index
    /\ clock' = clock + 1
    /\ ret' = [ret EXCEPT ![t] = StoreReturn("insert_memory_item", <<item_id>>)]
    /\ UNCHANGED <<auxVars, indexVars, procVars, pc, loc, lastIngested, envVars>>

\* await db.tombstone_by_content(contents)
TombstoneCall(t, contents) ==
    /\ pc[t] = "idle"
    /\ clock < MaxClock
    /\ items' = TombstoneByContent(contents, clock + 1)
    /\ clock' = clock + 1
    /\ ret' = [ret EXCEPT ![t] = StoreReturn("tombstone_by_content", <<>>)]
    /\ UNCHANGED <<auxVars, fts, indexVars, procVars, pc, loc, lastIngested,
                   envVars>>

\* await db.touch_item(item_id)
TouchCall(t, item_id) ==
    /\ pc[t] = "idle"
    /\ clock < MaxClock
    /\ item_id \in 1..(Len(items) + 1)
    /\ items' = TouchItem(item_id, clock + 1)
    /\ clock' = clock + 1
    /\ ret' = [ret EXCEPT ![t] = StoreReturn("touch_item", <<item_id>>)]
    /\ UNCHANGED <<auxVars, fts, indexVars, procVars, pc, loc, lastIngested,
                   envVars>>

\* await db.mark_items_indexed([item_id])
MarkIndexedCall(t, item_id) ==
    /\ pc[t] = "idle"
    /\ item_id \in ItemIds
    /\ items' = MarkItemsIndexed(<<item_id>>)
    /\ ret' = [ret EXCEPT ![t] = StoreReturn("mark_items_indexed", <<item_id>>)]
    /\ UNCHANGED <<auxVars, fts, clock, indexVars, procVars, pc, loc,
                   lastIngested, envVars>>

\* await db.search_fts(query)
SearchCall(t, query) ==
    /\ pc[t] = "idle"
    /\ ret' = [ret EXCEPT ![t] =
                 StoreReturn("search_fts", SearchFts(query, SearchLimit))]
    /\ UNCHANGED <<auxVars, storeVars, indexVars, procVars, pc, loc,
                   lastIngested, envVars>>

\* One task calls the operations of the item store one after the other.
NextStore ==
    \/ \E item_id \in 1..MaxClock, kind \in Kinds, text \in StoreTexts :
          InsertItemCall(Writer, item_id, kind, text)
    \/ \E text \in StoreTexts : TombstoneCall(Writer, <<text>>)
    \/ \E item_id \in 1..MaxClock : TouchCall(Writer, item_id)
    \/ \E item_id \in 1..MaxClock : MarkIndexedCall(Writer, item_id)
    \/ \E query \in Queries : SearchCall(Writer, query)

SpecStore == Init /\ [][NextStore]_vars

\* ------------------------------------------------ legacy migration
\* Contents of the memory_docs table of databases written before the
\* memory_items table existed.
LegacyStores == { <<"b">>, <<"a", "b">> }

\* DatabaseClient.initialize on such a database: INSERT OR IGNORE INTO
\* memory_items SELECT doc_id, 'fact', content, created_at, now, 0
\* FROM memory_docs; DELETE FROM memory_docs.  Nothing is written to
\* memory_fts.
MigrateLegacy(docs) ==
    /\ boot = "down"
    /\ zstate = "absent"
    /\ items = <<>>
    /\ clock = 0
    /\ items' = [n \in 1..Len(docs) |->
                    [NewItem("fact", docs[n], clock + 1) EXCEPT !.created_ts = 0]]
    /\ clock' = clock + 1
    /\ UNCHANGED <<auxVars, fts, indexVars, procVars, pc, loc, ret,
                   lastIngested, envVars>>

\* MemoryGate.process and the sync_pending_memories that follows it, with
\* the database, the embedding model and the index answering; the extractor
\* finds the turn important or not.
ProcessQuiet(t) ==
    \/ ProcessStart(t)
    \/ AddHistory(t, TRUE)
    \/ \E query \in Queries : ProcessRetrieve(t, query, TRUE)
    \/ RetrieveFts(t)
    \/ RetrieveResolve(t)
    \/ \E outcome \in {"unimportant", "important"}, memory \in TurnMemories :
          ProcessExtract(t, outcome, memory)
    \/ ProcessApply(t)
    \/ ApplyTombstone(t)
    \/ ExactCheck(t)
    \/ SemanticDedup(t, TRUE)
    \/ TouchExisting(t)
    \/ InsertNew(t)
    \/ ProcessReturn(t)

SyncAfterTurnQuiet(t) ==
    \/ /\ turn[t].stage = "returned"
       /\ SyncFetch(t, TRUE)
    \/ SyncUpsert(t, "ok")
    \/ SyncMark(t)

\* The engine started on a fresh or on a legacy database: turns handled by
\* MemoryGate.process, each followed by sync_pending_memories, with crashes,
\* corruptions, restarts and rebuilds.
NextLegacy ==
    \/ \E docs \in LegacyStores : MigrateLegacy(docs)
    \/ StartupLive
    \/ RebuildUpsert(TRUE)
    \/ RebuildMark
    \/ Crash
    \/ Corrupt("unopenable")
    \/ ProcessQuiet(Writer)
    \/ SyncAfterTurnQuiet(Writer)

SpecLegacy == Init /\ [][NextLegacy]_vars

\* Active items carrying exactly the text.
ExactMatches(text) ==
    {i \in 1..Len(items) : items[i].text = text /\ items[i].status = "active"}

\* Vector records other than the sentinel whose similarity to the text is
\* above 0.92.
NearDuplicates(text) ==
    {d \in DOMAIN zdocs \ {HEALTH_ID} : Score(zdocs[d], <<"vec", text>>) > 92}

\* ---- C19 (Spec).  For the text apply_updates is handling: a hit of the
\* exact-text check among Active items goes on to touch one of the matching
\* items and a miss goes on to the near-duplicate check (to the insert when
\* the store has no collection); a hit of the near-duplicate check goes on
\* to touch the best neighbour above 0.92, a miss and a failed check go on
\* to the insert; the touch inserts nothing and refreshes updated_ts of the
\* matched item; and a row is added to the items table only by the insert
\* reached that way, one row carrying the text.
C19_InsertOnlyIfBothChecksMiss ==
    [][\A t \in Tasks :
         LET text == Head(loc[t].queue)[1]
         IN  /\ (pc[t] = "check" /\ pc'[t] # "check" /\ boot' = "up") =>
                  IF ExactMatches(text) # {}
                  THEN /\ pc'[t] = "touch"
                       /\ loc'[t].target \in ExactMatches(text)
                  ELSE /\ pc'[t] = IF collection THEN "dedup" ELSE "insert"
             /\ (pc[t] = "dedup" /\ pc'[t] # "dedup" /\ boot' = "up") =>
                  IF faults' = faults /\ NearDuplicates(text) # {}
                  THEN /\ pc'[t] = "touch"
                       /\ loc'[t].target \in NearDuplicates(text)
                       /\ \A d \in NearDuplicates(text) :
                             Score(zdocs[d], <<"vec", text>>)
                                <= Score(zdocs[loc'[t].target], <<"vec", text>>)
                  ELSE pc'[t] = "insert"
             /\ (pc[t] = "touch" /\ pc'[t] # "touch" /\ boot' = "up") =>
                  /\ Len(items') = Len(items)
                  /\ fts' = fts
                  /\ loc[t].target \in 1..Len(items)
                  /\ items'[loc[t].target].updated_ts = clock'
                  /\ clock' > clock
             /\ (pc'[t] \in {"touch", "insert"} /\ pc'[t] # pc[t]) =>
                  pc[t] \in {"check", "dedup"}
             /\ (pc[t] = "insert" /\ pc'[t] # "insert" /\ boot' = "up") =>
                  /\ Len(items') = Len(items) + 1
                  /\ items'[Len(items')].text = text
                  /\ items'[Len(items')].status = "active"
             /\ (Len(items') # Len(items)) =>
                  \E w \in Tasks : pc[w] = "insert" /\ pc'[w] # "insert"
      ]_vars

\* A text whose exact check missed has just been settled by touching an
\* Active near duplicate that carries another text: no row was added and the
\* neighbour's updated_ts is the time of the touch.
C19_Witness ==
    /\ lastIngested.text \in Texts
    /\ ~lastIngested.created
    /\ lastIngested.item \in 1..Len(items)
    /\ items[lastIngested.item].text # lastIngested.text
    /\ items[lastIngested.item].status = "active"
    /\ items[lastIngested.item].updated_ts = clock
    /\ \A i \in 1..Len(items) : items[i].text # lastIngested.text

\* ---- C20 (SpecStore).  A call of insert_memory_item with the id of a row
\* already in the table leaves the store as it was: the rows of the items
\* table (text, kind, status, indexed flag, timestamps) and the keyword
\* index are unchanged.
C20_InsertIdempotentOnCollision ==
    [][\A t \in Tasks :
         (/\ ret'[t].op = "insert_memory_item"
          /\ clock' # clock
          /\ ret'[t].ids[1] \in 1..Len(items))
            => /\ items' = items
               /\ fts' = fts
      ]_vars

\* Entries of the keyword index for an item.
FtsEntries(i) == {p \in DOMAIN fts : fts[p] = i}

\* ---- C21 (SpecLegacy).  In every state each Active item, migrated ones
\* included, has exactly one keyword-index entry, and a keyword search
\* returns every Active item whose text matches the query and no Tombstoned
\* item.
C21_KeywordIndexInSync ==
    /\ \A i \in 1..Len(items) :
          items[i].status = "active" => Cardinality(FtsEntries(i)) = 1
    /\ \A query \in Queries :
          LET found == Range(SearchFts(query, SearchLimit))
          IN  /\ \A i \in 1..Len(items) :
                    (items[i].status = "active" /\ Bm25(query, items[i].text) > 0)
                       => i \in found
              /\ \A i \in found : items[i].status = "active"

\* A sync_pending_memories or rebuild_from_sqlite run has written the vector
\* record of the item and has its mark_items_indexed still to do.
BetweenUpsertAndMark(i) ==
    \/ \E t \in Tasks : pc[t] = "mark" /\ i \in Range(DocIds(loc[t].ids))
    \/ boot = "rebuild_mark" /\ rb.upserted /\ i \in Range(rb.ids)

C23_ItemsNeverDeleted ==
    [][/\ Len(items') >= Len(items)
       /\ \A i \in 1..Len(items) :
             /\ items'[i].text = items[i].text
             /\ (items[i].status = "active" /\ items'[i].status # "active") =>
                   /\ items'[i].status = "tombstoned"
                   /\ \E t \in Tasks :
                         /\ pc[t] = "tombstone"
                         /\ items[i].text \in Range(loc[t].obsolete)
      ]_vars

\* A migrated item has been tombstoned, an item was inserted after it, and
\* the index has been rebuilt from the table after a corruption.
C23_Witness ==
    /\ Len(items) > 2
    /\ items[1].created_ts = 0
    /\ items[1].status = "tombstoned"
    /\ items[Len(items)].created_ts > 0
    /\ corruptions > 0
    /\ crashes > 0
    /\ boot = "up"

\* ---- C24 (SpecGate).  The sentinel id is in no candidate list and no row
\* of a get_relevant_context result, in no get_relevant_skills result, and
\* is never the item apply_updates goes on to touch.
C24_SentinelNeverReturned ==
    \A t \in Tasks :
        /\ ret[t].op = "get_relevant_context" =>
              /\ HEALTH_ID \notin Range(ret[t].zvec_ranked)
              /\ HEALTH_ID \notin Range(ret[t].fts_ranked)
              /\ HEALTH_ID \notin RowIds(ret[t].rows)
        /\ pc[t] \in {"fts", "resolve"} =>
              /\ HEALTH_ID \notin Range(loc[t].zvec_ranked)
              /\ HEALTH_ID \notin Range(loc[t].merged_ids)
        /\ ret[t].op = "get_relevant_skills" =>
              HEALTH_ID \notin Range(ret[t].ids)
        /\ pc[t] = "touch" => loc[t].target # HEALTH_ID

\* A skills query whose nearest record is the sentinel has returned a skill,
\* while a context retrieval over an index holding item records has returned
\* rows.
C24_Witness ==
    /\ ret[Reader].op = "get_relevant_skills"
    /\ ret[Reader].status = "ok"
    /\ ret[Reader].query = "sq"
    /\ ret[Reader].ids # <<>>
    /\ ret[Writer].op = "get_relevant_context"
    /\ ret[Writer].status = "ok"
    /\ ret[Writer].rows # <<>>
    /\ \E i \in 1..Len(items) : items[i].text = "c" /\ i \in DOMAIN zdocs

\* ---- C25 (SpecLegacy).  The tombstone_by_content step of apply_updates
\* turns every Active item whose text is one of the given texts into a
\* Tombstoned item with updated_ts set to the time of the call, and leaves
\* every other row, every other field of the rows it tombstones, the number
\* of rows, the keyword index and the vector records as they were.
C25_TombstoneFrame ==
    [][\A t \in Tasks :
         (pc[t] = "tombstone" /\ pc'[t] # "tombstone" /\ boot' = "up") =>
            /\ Len(items') = Len(items)
            /\ clock' > clock
            /\ \A i \in 1..Len(items) :
                  IF /\ items[i].status = "active"
                     /\ \E n \in 1..Len(loc[t].obsolete) :
                           loc[t].obsolete[n] = items[i].text
                  THEN items'[i] = [items[i] EXCEPT !.status = "tombstoned",
                                                    !.updated_ts = clock']
                  ELSE items'[i] = items[i]
            /\ fts' = fts
            /\ zdocs' = zdocs
      ]_vars

\* A call naming two texts has just tombstoned an indexed item that has a
\* vector record, in a table that also holds an Active item with another
\* text.
C25_Witness ==
    /\ lastIngested = NoIngestion
    /\ \E t \in Tasks : turn[t].stage = "apply" /\ Len(turn[t].memory.obsolete_items) = 2
    /\ \E i, j \in 1..Len(items) :
          /\ items[i].status = "tombstoned"
          /\ items[i].updated_ts = clock
          /\ items[i].indexed
          /\ i \in DOMAIN zdocs
          /\ items[j].status = "active"
          /\ items[j].text # items[i].text

\* ---- C26 (SpecStore).  A touch_item(id) call leaves the number of rows,
\* every row with another id, the keyword index and the vector records as
\* they were, and in the row with that id, if there is one, changes
\* updated_ts only: an unknown id creates nothing and a Tombstoned item
\* stays Tombstoned.
C26_TouchFrame ==
    [][\A t \in Tasks :
         (ret'[t].op = "touch_item" /\ clock' # clock) =>
            LET id == ret'[t].ids[1]
            IN  /\ Len(items') = Len(items)
                /\ \A i \in 1..Len(items) :
                      IF i = id
                      THEN items'[i] = [items[i] EXCEPT !.updated_ts = clock']
                      ELSE items'[i] = items[i]
                /\ fts' = fts
                /\ zdocs' = zdocs
      ]_vars

\* An item inserted and then tombstoned has just been touched.
C26_Witness ==
    /\ ret[Writer].op = "touch_item"
    /\ ret[Writer].ids[1] \in 1..Len(items)
    /\ items[ret[Writer].ids[1]].status = "tombstoned"
    /\ items[ret[Writer].ids[1]].updated_ts = clock
    /\ items[ret[Writer].ids[1]].created_ts < clock - 1

\* ------------------------------------------------ thread_history
MaxRows == 3
MaxStamp == 1

Threads == {"th1", "th2"}
Roles == {"user", "assistant"}

\* Readings of datetime.now(timezone.utc): the wall clock of the host, which
\* may read the same value twice and may have been set back between two reads.
Stamps == 0..MaxStamp

\* await db.add_history(thread_id, role, content); the content is the
\* number of the message, the id the AUTOINCREMENT key gives its row.
AddHistoryCall(t, thread_id, role, now) ==
    /\ pc[t] = "idle"
    /\ Len(history) < MaxRows
    /\ history' = Append(history,
                         [thread_id |-> thread_id, timestamp |-> now,
                          role |-> role, content |-> Len(history) + 1])
    /\ ret' = [ret EXCEPT ![t] = [NoRet EXCEPT !.op = "add_history",
                                               !.status = "ok"]]
    /\ UNCHANGED <<storeVars, indexVars, procVars, pc, loc, lastIngested,
                   envVars, turn, cancels, laneVars, sideVars, lockVars>>

\* Ids of the rows WHERE thread_id = ?
ThreadRows(thread_id) ==
    { n \in 1..Len(history) : history[n].thread_id = thread_id }

Smaller(a, b) == IF a < b THEN a ELSE b

\* The row lists ORDER BY timestamp DESC LIMIT ? can produce: rows with equal
\* timestamps come in an order the statement does not fix.
NewestFirst(thread_id, limit) ==
    LET rows == ThreadRows(thread_id)
        k == Smaller(limit, Cardinality(rows))
    IN  { q \in [1..k -> rows] :
            /\ \A i, j \in 1..k : i < j =>
                  /\ q[i] # q[j]
                  /\ history[q[i]].timestamp >= history[q[j]].timestamp
            /\ \A n \in rows \ Range(q) : \A i \in 1..k :
                  history[n].timestamp <= history[q[i]].timestamp }

\* list(reversed(rows)) of the dictionaries {role, content}
ReversedRows(q) ==
    [i \in 1..Len(q) |->
        [role |-> history[q[Len(q) + 1 - i]].role,
         content |-> history[q[Len(q) + 1 - i]].content]]

\* await db.get_recent_history(thread_id, limit)
GetRecentHistoryCall(t, thread_id, limit) ==
    /\ pc[t] = "idle"
    /\ \E q \in NewestFirst(thread_id, limit) :
          ret' = [ret EXCEPT ![t] =
                    [NoRet EXCEPT !.op = "get_recent_history",
                                  !.status = "ok", !.query = thread_id,
                                  !.top_k = limit, !.rows = ReversedRows(q)]]
    /\ UNCHANGED <<storeVars, indexVars, procVars, pc, loc, lastIngested,
                   envVars, auxVars>>

\* One task logs turns of two threads and reads them back.
NextHistory ==
    \/ \E thread_id \in Threads, role \in Roles, now \in Stamps :
          AddHistoryCall(Writer, thread_id, role, now)
    \/ \E thread_id \in Threads, limit \in 1..MaxRows :
          GetRecentHistoryCall(Writer, thread_id, limit)

SpecHistory == Init /\ [][NextHistory]_vars

\* The last min(limit, n) rows appended for a thread, in the order of
\* their appending.
RECURSIVE AppendedFor(_, _)
AppendedFor(thread_id, n) ==
    IF n = 0 THEN <<>>
    ELSE IF history[n].thread_id = thread_id
         THEN Append(AppendedFor(thread_id, n - 1),
                     [role |-> history[n].role, content |-> history[n].content])
         ELSE AppendedFor(thread_id, n - 1)

LastAppended(thread_id, limit) ==
    LET all == AppendedFor(thread_id, Len(history))
        k == Smaller(limit, Len(all))
    IN  SubSeq(all, Len(all) - k + 1, Len(all))

\* ---- C27 (SpecHistory).  Each call of get_recent_history(thread_id, limit)
\* returns the last min(limit, n) turns appended for that thread, oldest
\* first, in the order in which add_history appended them, and no turn of
\* another thread.
C27_RecentHistoryInAppendOrder ==
    [][ \A t \in Tasks :
          (ret'[t] # ret[t] /\ ret'[t].op = "get_recent_history") =>
              ret'[t].rows = LastAppended(ret'[t].query, ret'[t].top_k)
      ]_vars

\* ------------------------------------------------ LaneManager
\* A submit that starts a worker whatever it finds registered.
AlwaysNeedsWorker(session_id) == TRUE

\* if session_id not in self.workers or self.workers[session_id].done()
NeedsWorker(session_id) ==
    \/ workers[session_id] = 0
    \/ worker_tasks[workers[session_id]].state = "done"

\* await lane_manager.submit(session_id, agent_daemon, msg).  The queue has
\* no size limit, so put() does not suspend and the whole call is one step
\* of the event loop.  The worker task created for a call carries the
\* number of the call.
Submit(session_id) ==
    \E c \in Calls :
        /\ futures[c].state = "none"
        /\ \A d \in Calls : d < c => futures[d].state # "none"
        /\ futures' = [futures EXCEPT ![c] =
                         [session_id |-> session_id, state |-> "pending"]]
        /\ lanes' = [lanes EXCEPT ![session_id] = Append(@, c)]
        /\ IF NeedsWorker(session_id)
           THEN /\ worker_tasks' = [worker_tasks EXCEPT ![c] =
                      [session_id |-> session_id, state |-> "scheduled",
                       call |-> 0]]
                /\ workers' = [workers EXCEPT ![session_id] = c]
           ELSE UNCHANGED <<workers, worker_tasks>>
        /\ UNCHANGED <<engineVars, gateVars, cancels, lockVars, sideVars, memory_tasks>>

\* A worker that takes the call submitted last instead of the one at the
\* head of the queue.
TakeNewest(w) ==
    LET session_id == worker_tasks[w].session_id
        q == lanes[session_id]
    IN  IF q # <<>>
        THEN /\ lanes' = [lanes EXCEPT ![session_id] = SubSeq(q, 1, Len(q) - 1)]
             /\ worker_tasks' = [worker_tasks EXCEPT ![w] =
                   [@ EXCEPT !.state = "awaiting", !.call = q[Len(q)]]]
             /\ UNCHANGED workers
        ELSE /\ worker_tasks' = [worker_tasks EXCEPT ![w] =
                   [@ EXCEPT !.state = "done", !.call = 0]]
             /\ workers' = [workers EXCEPT ![session_id] = 0]
             /\ UNCHANGED lanes

\* A worker that tests the queue once, when it starts, and exits after the
\* call it took.
ExitAfterOneCall(w) ==
    LET session_id == worker_tasks[w].session_id
    IN  IF lanes[session_id] # <<>> /\ worker_tasks[w].state = "scheduled"
        THEN /\ lanes' = [lanes EXCEPT ![session_id] = Tail(@)]
             /\ worker_tasks' = [worker_tasks EXCEPT ![w] =
                   [@ EXCEPT !.state = "awaiting",
                             !.call = Head(lanes[session_id])]]
             /\ UNCHANGED workers
        ELSE /\ worker_tasks' = [worker_tasks EXCEPT ![w] =
                   [@ EXCEPT !.state = "done", !.call = 0]]
             /\ workers' = [workers EXCEPT ![session_id] = 0]
             /\ UNCHANGED lanes

\* while not self.lanes[session_id].empty(): get() the next call and await
\* it; on an empty queue the finally block removes the worker's entry.  get()
\* on a queue that is not empty does not suspend.
WhileNotEmpty(w) ==
    LET session_id == worker_tasks[w].session_id
    IN  IF lanes[session_id] # <<>>
        THEN /\ lanes' = [lanes EXCEPT ![session_id] = Tail(@)]
             /\ worker_tasks' = [worker_tasks EXCEPT ![w] =
                   [@ EXCEPT !.state = "awaiting",
                             !.call = Head(lanes[session_id])]]
             /\ UNCHANGED workers
        ELSE /\ worker_tasks' = [worker_tasks EXCEPT ![w] =
                   [@ EXCEPT !.state = "done", !.call = 0]]
             /\ workers' = [workers EXCEPT ![session_id] = 0]
             /\ UNCHANGED lanes

\* The event loop runs a worker task created by submit for the first time.
WorkerStart(w) ==
    /\ worker_tasks[w].state = "scheduled"
    /\ WhileNotEmpty(w)
    /\ UNCHANGED <<engineVars, gateVars, cancels, lockVars, sideVars, futures,
                   memory_tasks>>

\* What agent_daemon ends with: a response (after which it creates the
\* _run_memorygate task), an approval request, a reported error, or an
\* exception of its own.
Outcomes == {"response", "approval_required", "error", "exception"}

\* The completion as it would be if an exception of the call ended the
\* worker (no except clause around the call).
CallReturnsOrKillsWorker(w, outcome) ==
    /\ worker_tasks[w].state = "awaiting"
    /\ futures' = [futures EXCEPT ![worker_tasks[w].call].state =
                     IF outcome = "exception" THEN "exception" ELSE "result"]
    /\ memory_tasks' = IF outcome = "response"
                       THEN [memory_tasks EXCEPT ![worker_tasks[w].call] =
                                "scheduled"]
                       ELSE memory_tasks
    /\ IF outcome = "exception"
       THEN /\ worker_tasks' = [worker_tasks EXCEPT ![w] =
                   [@ EXCEPT !.state = "done", !.call = 0]]
            /\ workers' = [workers EXCEPT ![worker_tasks[w].session_id] = 0]
            /\ UNCHANGED lanes
       ELSE WhileNotEmpty(w)
    /\ UNCHANGED <<engineVars, gateVars, cancels, lockVars, sideVars>>

\* result = await func(*args, **kwargs) completes: the future is resolved and
\* the worker goes on with its loop in the same step.
CallReturns(w, outcome) ==
    /\ worker_tasks[w].state = "awaiting"
    /\ futures' = [futures EXCEPT ![worker_tasks[w].call].state =
                     IF outcome = "exception" THEN "exception" ELSE "result"]
    /\ memory_tasks' = IF outcome = "response"
                       THEN [memory_tasks EXCEPT ![worker_tasks[w].call] =
                                "scheduled"]
                       ELSE memory_tasks
    /\ WhileNotEmpty(w)
    /\ UNCHANGED <<engineVars, gateVars, cancels, lockVars, sideVars>>

\* _run_memorygate: await memorygate.process(...), then
\* await memorygate.store.sync_pending_memories(); an exception of either
\* ends the task.
MemoryGateStep(c, ok) ==
    /\ memory_tasks[c] \in {"scheduled", "process", "sync_pending"}
    /\ memory_tasks' = [memory_tasks EXCEPT ![c] =
          IF memory_tasks[c] = "scheduled" THEN "process"
          ELSE IF memory_tasks[c] = "process" /\ ok THEN "sync_pending"
          ELSE "done"]
    /\ UNCHANGED <<engineVars, gateVars, cancels, lockVars, sideVars, lanes, workers,
                   worker_tasks, futures>>

NextLanes ==
    \/ \E session_id \in Sessions : Submit(session_id)
    \/ \E w \in Calls : WorkerStart(w)
    \/ \E w \in Calls, outcome \in Outcomes : CallReturns(w, outcome)
    \/ \E c \in Calls, ok \in BOOLEAN : MemoryGateStep(c, ok)

SpecLanes == Init /\ [][NextLanes]_vars

\* The event loop runs every task that is ready, and every submitted call
\* terminates.
SpecLanesLive ==
    /\ Init
    /\ [][NextLanes]_vars
    /\ \A w \in Calls : WF_vars(WorkerStart(w))
    /\ \A w \in Calls : WF_vars(\E outcome \in Outcomes : CallReturns(w, outcome))

Resolved(c) == futures[c].state \in {"result", "exception"}

LiveWorkers(session_id) ==
    { w \in Calls : /\ worker_tasks[w].session_id = session_id
                    /\ worker_tasks[w].state \in {"scheduled", "awaiting"} }

\* ---- C28 (SpecLanes).  Each session has at most one worker task alive,
\* and a call is running only when every call submitted earlier for its
\* session has finished.
C28_OneCallPerSession ==
    /\ \A session_id \in Sessions : Cardinality(LiveWorkers(session_id)) <= 1
    /\ \A w \in Calls :
          worker_tasks[w].state = "awaiting" =>
              /\ futures[worker_tasks[w].call].state = "pending"
              /\ \A d \in Calls :
                    (/\ d < worker_tasks[w].call
                     /\ futures[d].session_id = worker_tasks[w].session_id)
                        => Resolved(d)

\* The first call of a session has finished, the second one is running and
\* a third one, submitted meanwhile, waits in the queue.
C28_Witness ==
    \E w \in Calls :
        /\ worker_tasks[w].state = "awaiting"
        /\ worker_tasks[w].call = 2
        /\ futures[1].session_id = worker_tasks[w].session_id
        /\ Resolved(1)
        /\ lanes[worker_tasks[w].session_id] = <<3>>

\* ---- C29 (SpecLanesLive).  Every submitted call is eventually executed and
\* its future resolved with the result or the exception of the call.
C29_EverySubmittedCallResolved ==
    \A c \in Calls : (futures[c].state = "pending") ~> Resolved(c)

\* A call submitted while the worker of its session was alive, for which no
\* worker was created, has been executed by that worker.
C29_Witness ==
    /\ futures[1].session_id = futures[2].session_id
    /\ worker_tasks[2].state = "none"
    /\ Resolved(2)
    /\ worker_tasks[1].state = "done"

\* ---- C30 (SpecLanes).  The memory processing of two calls of one session
\* (process followed by sync_pending_memories) never runs at the same time.
C30_MemoryProcessingSerialized ==
    \A c, d \in Calls :
        (/\ c # d
         /\ futures[c].session_id = futures[d].session_id
         /\ memory_tasks[c] \in {"process", "sync_pending"})
            => memory_tasks[d] \notin {"process", "sync_pending"}

\* ------------------------------------------------ write-action gate
\* The tool list of agent_node as it would be with every tool passed as the
\* plain function.
NothingIntercepted(tool) == FALSE

\* if action_name in write_actions: the tool handed to the agent is the
\* interceptor made by _make_write_action_tool, not the real function.
Intercepted(tool) == tool \in write_actions

\* Values the graph is resumed with: the three buttons and anything else.
Decisions == {"approve", "reject", "edit:x", "unknown"}

\* graph.astream(input): START -> router -> agent, tool_failure_count 0.
GraphStart ==
    /\ graph_node = "end"
    /\ graph_node' = "agent"
    /\ tool_failure_count' = 0
    /\ UNCHANGED <<engineVars, gateVars, cancels, lockVars, laneVars, cronVars,
                   pending_action, decision, real_calls>>

\* Inside agent.run the model calls one of the tools.  An intercepted tool
\* raises WriteActionRequiresApproval: agent_node stores the pending action,
\* route_after_agent goes to human_approval, which pauses at interrupt().  A
\* plain tool runs its real function and the run goes on.
AgentCallsTool(tool) ==
    /\ graph_node = "agent"
    /\ IF Intercepted(tool)
       THEN /\ pending_action' = tool
            /\ tool_failure_count' = 0
            /\ graph_node' = "human_approval"
            /\ UNCHANGED real_calls
       ELSE /\ real_calls[tool] < MaxToolCalls
            /\ real_calls' = [real_calls EXCEPT ![tool] = @ + 1]
            /\ UNCHANGED <<pending_action, tool_failure_count, graph_node>>
    /\ UNCHANGED <<engineVars, gateVars, cancels, lockVars, laneVars, cronVars,
                   decision>>

\* agent.run returns the response, or raises: the failure count goes up and
\* the node asks for a retry until the third failure.  The _retry key is no
\* field of AgentState, so the route taken after a failure is the agent again
\* or the synthesizer.
AgentReturns(ok, retried) ==
    /\ graph_node = "agent"
    /\ pending_action' = "none"
    /\ IF ok
       THEN /\ tool_failure_count' = 0
            /\ graph_node' = "end"
       ELSE /\ tool_failure_count' = tool_failure_count + 1
            /\ graph_node' = IF tool_failure_count + 1 < 3 /\ retried
                             THEN "agent" ELSE "end"
    /\ UNCHANGED <<engineVars, gateVars, cancels, lockVars, laneVars, cronVars,
                   decision, real_calls>>

\* _execute_tool(action_name, tool_args): the real function from the registry
ExecuteTool(tool) == [real_calls EXCEPT ![tool] = @ + 1]

\* graph.astream(Command(resume=value)): human_approval_node goes on after
\* interrupt().  "approve" runs the real function, "edit:..." asks for a
\* rerun of the agent (_needs_rerun, no field of AgentState either), anything
\* else is a rejection; all three clear the pending action.
Resume(value, rerun) ==
    /\ graph_node = "human_approval"
    /\ decision' = value
    /\ pending_action' = "none"
    /\ IF value = "approve"
       THEN /\ real_calls[pending_action] < MaxToolCalls
            /\ real_calls' = ExecuteTool(pending_action)
            /\ graph_node' = "end"
       ELSE /\ real_calls' = real_calls
            /\ graph_node' = IF value = "edit:x" /\ rerun THEN "agent" ELSE "end"
    /\ UNCHANGED <<engineVars, gateVars, cancels, lockVars, laneVars, cronVars,
                   tool_failure_count>>

\* Runs of the agent graph of one thread.
NextHitl ==
    \/ GraphStart
    \/ \E tool \in Tools : AgentCallsTool(tool)
    \/ \E ok \in BOOLEAN, retried \in BOOLEAN : AgentReturns(ok, retried)
    \/ \E value \in Decisions, rerun \in BOOLEAN : Resume(value, rerun)

SpecHitl == Init /\ [][NextHitl]_vars

\* ------------------------------------------------ CronManager
\* None is written 0: the code tests next_run_at_ms by truth value, to which
\* None and 0 are the same, and every time it stores is after time 0.
ScheduleKinds == {"at", "every"}

Max2(a, b) == IF a >= b THEN a ELSE b

\* _compute_next_run: "at" returns at_ms while it lies in the future and
\* None afterwards; "every" returns now + every_ms.
ComputeNextRun(job, now) ==
    IF job.kind = "at" THEN (IF job.at_ms > now THEN job.at_ms ELSE 0)
    ELSE now + Every

\* _apply_backoff: next_run_at_ms = now + 30 s
ApplyBackoff(job, now) == [job EXCEPT !.next_run_at_ms = now + Backoff]

\* _complete_run(job, success, start_ms)
CompleteRun(job, success, start_ms, now) ==
    LET ran == [job EXCEPT !.last_run_at_ms = start_ms]
    IN  IF success
        THEN IF ran.kind = "at"
             THEN [ran EXCEPT !.last_status = "ok", !.last_error = "none",
                              !.enabled = FALSE, !.next_run_at_ms = 0]
             ELSE [ran EXCEPT !.last_status = "ok", !.last_error = "none",
                              !.next_run_at_ms = ComputeNextRun(ran, now)]
        ELSE IF ran.kind = "at"
             THEN [ran EXCEPT !.last_status = "error", !.enabled = FALSE]
             ELSE ApplyBackoff([ran EXCEPT !.last_status = "error"], now)

\* j.enabled and j.state.next_run_at_ms
ActiveJobs(js) ==
    {j \in JobIds : js[j].present /\ js[j].enabled /\ js[j].next_run_at_ms # 0}

\* _get_next_wake_time: the earliest next_run_at_ms of the enabled jobs
GetNextWakeTime(js) ==
    CHOOSE w \in {js[j].next_run_at_ms : j \in ActiveJobs(js)} :
        \A j \in ActiveJobs(js) : w <= js[j].next_run_at_ms

\* _arm_timer: the pending tick is cancelled; when the service runs and a job
\* is scheduled a new tick sleeps max(0.1 s, next_wake - now), so a wake time
\* that has passed makes the tick fire a tenth of a second later, within the
\* same unit of time.
ArmTimer(js, is_running, now) ==
    IF ~is_running \/ ActiveJobs(js) = {} THEN NoTimer
    ELSE [armed |-> TRUE, wake |-> Max2(GetNextWakeTime(js), now)]

\* add_job(name, schedule, message): the job is stored enabled with its first
\* run computed, and the timer is armed again.
CronAddJob(id, kind, at_ms) ==
    /\ ~jobs[id].present
    /\ LET job == [NoJob EXCEPT !.present = TRUE, !.enabled = TRUE,
                                !.kind = kind, !.at_ms = at_ms]
           js == [jobs EXCEPT ![id] =
                    [job EXCEPT !.next_run_at_ms = ComputeNextRun(job, now_ms)]]
       IN  /\ jobs' = js
           /\ timer' = ArmTimer(js, cron_running, now_ms)
    /\ UNCHANGED <<engineVars, gateVars, cancels, lockVars, laneVars, hitlVars,
                   cron_running, executions, now_ms>>

\* start(): next_run_at_ms of every enabled job is recomputed from now.
CronStart ==
    /\ ~cron_running
    /\ cron_running' = TRUE
    /\ LET js == [j \in JobIds |->
                    IF jobs[j].present /\ jobs[j].enabled
                    THEN [jobs[j] EXCEPT
                            !.next_run_at_ms = ComputeNextRun(jobs[j], now_ms)]
                    ELSE jobs[j]]
       IN  /\ jobs' = js
           /\ timer' = ArmTimer(js, TRUE, now_ms)
    /\ UNCHANGED <<engineVars, gateVars, cancels, lockVars, laneVars, hitlVars,
                   executions, now_ms>>

\* Time passes.
AdvanceTime ==
    /\ now_ms < MaxTime
    /\ now_ms' = now_ms + 1
    /\ UNCHANGED <<engineVars, gateVars, cancels, lockVars, laneVars, hitlVars,
                   cron_running, jobs, timer, executions>>

\* j.enabled and j.state.next_run_at_ms and now >= j.state.next_run_at_ms
DueJobs(now) == {j \in ActiveJobs(jobs) : now >= jobs[j].next_run_at_ms}

\* One task of _execute_job per due job, in the order of self.jobs.
RECURSIVE Triggered(_, _)
Triggered(due, now) ==
    IF due = {} THEN <<>>
    ELSE LET j == CHOOSE x \in due : TRUE
         IN  <<[job |-> j, due |-> jobs[j].next_run_at_ms, start_ms |-> now,
                stage |-> "running", outcome |-> "none"]>>
             \o Triggered(due \ {j}, now)

\* The tick's sleep is over: _on_timer starts a task of _execute_job for
\* every due job, saves, and arms the timer again. next_run_at_ms of the
\* triggered jobs is left as it is.
OnTimer ==
    /\ cron_running
    /\ timer.armed
    /\ now_ms >= timer.wake
    /\ Len(executions) + Cardinality(DueJobs(now_ms)) <= MaxExecutions
    /\ executions' = executions \o Triggered(DueJobs(now_ms), now_ms)
    /\ timer' = ArmTimer(jobs, cron_running, now_ms)
    /\ UNCHANGED <<engineVars, gateVars, cancels, lockVars, laneVars, hitlVars,
                   cron_running, jobs, now_ms>>

\* The name final_response read by the log_run call after a successful run
\* is bound nowhere in _execute_job or in the module.
FinalResponseBound == FALSE

\* except Exception: last_error = str(e); _complete_run(job, False, start_ms)
FailedRun(job, start_ms, now) ==
    CompleteRun([job EXCEPT !.last_error = "error"], FALSE, start_ms, now)

\* _execute_job from the answer of the lane to its end. Without a chat id
\* the run is completed as failed and the function returns; a result with
\* "error" and an exception of the daemon go to the except clause; a good
\* result is completed as success and then logged, and an exception of the
\* logging goes to the except clause as well. Both ends arm the timer again.
ExecuteJobFinish(e, outcome) ==
    /\ e \in 1..Len(executions)
    /\ executions[e].stage = "running"
    /\ executions' = [executions EXCEPT ![e].stage = "done",
                                        ![e].outcome = outcome]
    /\ LET j == executions[e].job
           start_ms == executions[e].start_ms
           completed == CompleteRun(jobs[j], TRUE, start_ms, now_ms)
           after ==
             CASE outcome = "no_chat_id" ->
                    CompleteRun(jobs[j], FALSE, start_ms, now_ms)
               [] outcome = "ok" ->
                    IF FinalResponseBound THEN completed
                    ELSE FailedRun(completed, start_ms, now_ms)
               [] OTHER -> FailedRun(jobs[j], start_ms, now_ms)
           js == [jobs EXCEPT ![j] = after]
       IN  /\ jobs' = js
           /\ timer' = IF outcome = "no_chat_id" THEN timer
                       ELSE ArmTimer(js, cron_running, now_ms)
    /\ UNCHANGED <<engineVars, gateVars, cancels, lockVars, laneVars, hitlVars,
                   cron_running, now_ms>>

\* The cron service with jobs added before or after its start.
NextCron ==
    \/ \E id \in JobIds, kind \in ScheduleKinds, at_ms \in 1..MaxTime :
          CronAddJob(id, kind, at_ms)
    \/ CronStart
    \/ AdvanceTime
    \/ OnTimer
    \/ \E e \in 1..MaxExecutions,
          outcome \in {"ok", "error_result", "raises", "no_chat_id"} :
          ExecuteJobFinish(e, outcome)

SpecCron == Init /\ [][NextCron]_vars

\* ------------------------------------------------ claims C31 to C40
\* Active items whose text is the given one or whose embedding lies above
\* 0.92 of the text's embedding.
ActiveNear(text) ==
    {i \in 1..Len(items) :
        /\ items[i].status = "active"
        /\ \/ items[i].text = text
           \/ Score(<<"vec", items[i].text>>, <<"vec", text>>) > DedupThreshold}

\* ---- C32 (Spec).  After apply_updates has ingested a text there is an
\* Active item that carries the text or is a near duplicate of it: vector
\* records left behind by Tombstoned items do not keep a text from being
\* inserted.
C32_IngestedTextHasActiveItem ==
    lastIngested.text \in Texts => ActiveNear(lastIngested.text) # {}

\* Items of the table as it was that were Active and carry one of the texts.
ActiveWithText(rows, texts) ==
    {i \in 1..Len(rows) :
        /\ rows[i].status = "active"
        /\ \E n \in 1..Len(texts) : texts[n] = rows[i].text}

\* ---- C33 (SpecLegacy).  A turn whose extractor output has important =
\* false returns with the items table exactly as it was when process was
\* called, whatever the lists of the output hold; tombstone, touch and
\* insert steps are taken only inside a turn whose output has important =
\* true; and in such a turn every item that was Active when process was
\* called and carries an obsolete text is Tombstoned before the first touch
\* or insert of a new text.
C33_ProcessAppliesOnlyImportant ==
    [][\A t \in Tasks :
         /\ (turn[t].stage = "retrieve" /\ turn'[t].stage # "retrieve"
                /\ turn'[t].extraction = "unimportant") =>
               /\ turn'[t].stage = "returned"
               /\ items' = turn[t].before
         /\ (pc[t] \in {"tombstone", "touch", "insert"} /\ pc'[t] # pc[t]
                /\ boot' = "up") =>
               /\ turn[t].stage = "apply"
               /\ turn[t].extraction = "important"
         /\ (pc[t] \in {"touch", "insert"} /\ pc'[t] # pc[t] /\ boot' = "up") =>
               \A i \in ActiveWithText(turn[t].before,
                                       turn[t].memory.obsolete_items) :
                   items[i].status = "tombstoned"
      ]_vars

\* A turn has returned on an output with important = false that names new
\* facts and, as obsolete, the text of an item that is still Active.
C33_Witness ==
    \E t \in Tasks :
        /\ turn[t].stage = "returned"
        /\ turn[t].extraction = "unimportant"
        /\ turn[t].memory.facts # <<>>
        /\ ActiveWithText(items, turn[t].memory.obsolete_items) # {}
        /\ items = turn[t].before

\* ---- C34 (SpecRead).  The rows a returned get_relevant_context lists are
\* in descending order of the fused score of their ids: no row comes before
\* a row whose id has a strictly higher score.
C34_RowsInFusedScoreOrder ==
    \A t \in Tasks :
        (ret[t].op = "get_relevant_context" /\ ret[t].status = "ok") =>
            \A n, m \in 1..Len(ret[t].rows) :
                n < m =>
                    ~ScoreGT(FusedScore(ret[t].zvec_ranked, ret[t].fts_ranked,
                                        ret[t].rows[m].id),
                             FusedScore(ret[t].zvec_ranked, ret[t].fts_ranked,
                                        ret[t].rows[n].id))

\* Calls of a session that have been submitted and not yet taken by a worker.
Waiting(session_id) ==
    { c \in Calls : \E n \in 1..Len(lanes[session_id]) :
                       lanes[session_id][n] = c }

\* ---- C35 (SpecLanes).  The call a worker takes is the one submitted
\* earliest among the waiting calls of its session, and a waiting call waits
\* only for its own session: that session has a live worker which is about
\* to start or is running a call of that same session, whatever the other
\* sessions do.
C35_FifoPerSession ==
    /\ [][\A w \in Calls :
            (worker_tasks'[w].call # worker_tasks[w].call
                /\ worker_tasks'[w].call # 0) =>
               /\ worker_tasks'[w].call
                     \in Waiting(worker_tasks'[w].session_id)
               /\ futures[worker_tasks'[w].call].session_id
                     = worker_tasks'[w].session_id
               /\ \A d \in Waiting(worker_tasks'[w].session_id) :
                     worker_tasks'[w].call <= d
         ]_vars
    /\ [](\A session_id \in Sessions :
            lanes[session_id] # <<>> =>
               \E w \in LiveWorkers(session_id) :
                  \/ worker_tasks[w].state = "scheduled"
                  \/ futures[worker_tasks[w].call].session_id = session_id)

\* Calls of two sessions are running at the same time while a third call
\* waits behind one of them.
C35_Witness ==
    \E v, w \in Calls :
        /\ worker_tasks[v].state = "awaiting"
        /\ worker_tasks[w].state = "awaiting"
        /\ worker_tasks[v].session_id # worker_tasks[w].session_id
        /\ lanes[worker_tasks[v].session_id] # <<>>

\* ---- C36 (SpecLanes).  When a call ends with an exception, the exception
\* is stored in the future of that call and in no other, and the worker of
\* the session goes on: it takes the next waiting call of the session, or
\* finishes when none waits.
C36_ExceptionStaysInItsFuture ==
    [][\A w \in Calls :
          LET c == worker_tasks[w].call
              session_id == worker_tasks[w].session_id
          IN  (/\ worker_tasks[w].state = "awaiting"
               /\ futures[c].state = "pending"
               /\ futures'[c].state = "exception") =>
                 /\ \A d \in Calls \ {c} : futures'[d] = futures[d]
                 /\ memory_tasks' = memory_tasks
                 /\ IF lanes[session_id] # <<>>
                    THEN /\ worker_tasks'[w].state = "awaiting"
                         /\ worker_tasks'[w].call = Head(lanes[session_id])
                         /\ workers'[session_id] = workers[session_id]
                    ELSE worker_tasks'[w].state = "done"
      ]_vars

\* The first call of a session ended with an exception, and the call that
\* waited behind it has been run to its result by the same worker.
C36_Witness ==
    /\ futures[1].state = "exception"
    /\ futures[2].session_id = futures[1].session_id
    /\ worker_tasks[2].state = "none"
    /\ futures[2].state = "result"

\* ---- C31 (SpecHitl).  The real function of a tool listed in write_actions
\* runs only in the step that resumes the graph with "approve" while that
\* tool is the pending action, and once; the agent's call of such a tool runs
\* nothing and makes it the pending action; a resume with any other value
\* runs nothing and clears the pending action.
C31_WriteActionOnlyOnApprove ==
    [][/\ \A tool \in write_actions :
             real_calls'[tool] # real_calls[tool] =>
                /\ graph_node = "human_approval"
                /\ pending_action = tool
                /\ decision' = "approve"
                /\ real_calls'[tool] = real_calls[tool] + 1
       /\ (graph_node = "agent" /\ pending_action' \in write_actions) =>
             /\ real_calls' = real_calls
             /\ graph_node' = "human_approval"
       /\ (graph_node = "human_approval" /\ graph_node' # "human_approval"
              /\ decision' # "approve") =>
             /\ real_calls' = real_calls
             /\ pending_action' = "none"
      ]_vars

\* A run in which a read tool ran its real function and a write action was
\* intercepted has ended after the approval and the one execution of the
\* write action.
C31_Witness ==
    /\ decision = "approve"
    /\ graph_node = "end"
    /\ pending_action = "none"
    /\ real_calls["send_email"] = 1
    /\ real_calls["search_web"] = 1

\* C40: a restart on an intact index is a no-op on the index. When the
\* process comes up (initialize after the store was closed or the process
\* ended) and the index opens and is undamaged, every vector record that was
\* there is still there with the same vector, nothing but the sentinel is
\* added, the rebuild flag is not raised, and the start-up goes on to "up"
\* without a step of rebuild_from_sqlite.
C40_RestartIsNoOp ==
    /\ [][(boot = "down" /\ boot' = "opened" /\ zstate = "ok") =>
            /\ \A d \in DOMAIN zdocs : d \in DOMAIN zdocs' /\ zdocs'[d] = zdocs[d]
            /\ DOMAIN zdocs' \subseteq DOMAIN zdocs \cup {HEALTH_ID}
            /\ ~needs_rebuild']_vars
    /\ [][(boot = "opened" /\ ~needs_rebuild) =>
            /\ boot' \in {"opened", "up", "down"}
            /\ zdocs' = zdocs
            /\ items' = items]_vars

\* The process has been restarted on an index that was never damaged and
\* that holds item records besides the sentinel; the flag is down.
C40_Witness ==
    /\ boot = "opened"
    /\ crashes >= 1
    /\ corruptions = 0
    /\ ~needs_rebuild
    /\ \E d \in DOMAIN zdocs : d # HEALTH_ID

\* The item store under every operation that writes memory_items: the direct
\* calls of DatabaseClient next to the migration of a legacy database, the
\* start-up with its rebuild of the index, and sync_pending_memories.
NextItems ==
    \/ \E item_id \in 1..MaxClock, text \in StoreTexts :
          InsertItemCall(Writer, item_id, "fact", text)
    \/ \E text \in StoreTexts : TombstoneCall(Writer, <<text>>)
    \/ \E item_id \in 1..MaxClock : TouchCall(Writer, item_id)
    \/ \E item_id \in 1..MaxClock : MarkIndexedCall(Writer, item_id)
    \/ \E docs \in LegacyStores : MigrateLegacy(docs)
    \/ StartupLive
    \/ RebuildUpsert(TRUE)
    \/ RebuildMark
    \/ SyncFetch(Writer, TRUE)
    \/ SyncUpsert(Writer, "ok")
    \/ SyncMark(Writer)

SpecItems == Init /\ [][NextItems]_vars

C37_OneExecutionPerOccurrence ==
    \A e1, e2 \in 1..Len(executions) :
        (e1 # e2 /\ executions[e1].job = executions[e2].job) =>
            executions[e1].due # executions[e2].due

\* C38: an execution that completes without error leaves the job with
\* last_status "ok", no last_error and, for a recurring schedule,
\* next_run_at_ms computed from the schedule; an execution that fails leaves
\* last_status "error" with the backoff (recurring) or a disabled job
\* (one-shot).
C38_SuccessfulRunEndsOk ==
    [][\A e \in 1..Len(executions) :
         (executions[e].stage = "running" /\ executions'[e].stage = "done") =>
            LET j == executions[e].job
            IN  IF executions'[e].outcome = "ok"
                THEN /\ jobs'[j].last_status = "ok"
                     /\ jobs'[j].last_error = "none"
                     /\ jobs[j].kind = "every" =>
                           jobs'[j].next_run_at_ms = now_ms + Every
                ELSE /\ jobs'[j].last_status = "error"
                     /\ jobs[j].kind = "every" =>
                           jobs'[j].next_run_at_ms = now_ms + Backoff
                     /\ jobs[j].kind = "at" => ~jobs'[j].enabled
      ]_vars

====
